---- MODULE Spec2Model ----
(***************************************************************************)
(* A model of pomeloGPT's web-search curation code:                        *)
(*   backend/api/chat.py            generate_search_queries, chat_stream   *)
(*   backend/api/searxng_service.py SearXNGService                         *)
(*                                                                         *)
(* Python strings are modelled as sequences of one-character strings, so   *)
(* that substring tests, regular expressions, URL parsing and query-string *)
(* handling are computed character by character as the code computes them. *)
(* An LLM reply is a sequence of JSON tokens (and prose tokens).           *)
(***************************************************************************)
EXTENDS Integers, Sequences, FiniteSets, TLC

VARIABLES
    \* ---- Query Planner (generate_search_queries) ----
    messages,       \* the conversation: a sequence of [role, content]
    plannerPc,      \* "start" | "fast_await" | "decision_await" | "returned" | "raised"
    llmCalls,       \* the LLM calls issued so far: a sequence of "query_generation" | "decision"
    response,       \* the outcome of the LLM call (a reply text or an exception)
    decision,       \* what the planner returned to its caller
    \* ---- _normalize_url called on one url ----
    normUrl,        \* the url passed in
    normOut,        \* the url returned
    normPc,         \* "start" | "done"
    \* ---- _filter_urls called on one result list ----
    filterIn,       \* the results passed in
    filterOut,      \* the list returned
    filterPc,       \* "start" | "done"
    \* ---- _ensure_diversity called on one result list ----
    divIn,          \* the results passed in
    divMax,         \* max_per_domain
    divOut,         \* the list returned
    divPc,          \* "start" | "done"
    \* ---- chat_stream: the web-search stage of one chat turn ----
    chatMessages,   \* request.messages
    use_web_search, \* request.use_web_search
    clock,          \* datetime.now(): [date, year]
    encoder,        \* what the embedding model computes: text -> vector
    chatPc,         \* "start" | "plan" | "read_url" | "health" | "search" | "score" | "prompt" | "generate" | "done" | "error"
    chatDecision,   \* decision, as generate_search_queries returned it
    embedding_model,        \* searxng._embedding_model is loaded
    query_results,          \* what the latest search() call returned
    turnRequests,           \* the outgoing calls of the turn so far, in order
    queryIdx,       \* query_idx of the next search
    all_results,    \* the results merged so far
    seen_urls,      \* the urls merged so far
    web_results,    \* the results handed to the prompt
    url_content,    \* the text read from the url, None before
    searxng_error_message,  \* None or the notice for the prompt
    promptSection,  \* which section the prompt got
    \* ---- score_by_freshness called on one result list, and the top-8 cut ----
    freshIn,        \* the results passed in
    freshClock,     \* current_date and current_year
    freshOut,       \* the scored results returned
    freshTop,       \* web_results taken from them
    freshPc,        \* "start" | "done"
    \* ---- _deduplicate_results called on one result list, then on its own output ----
    dedupIn,        \* the results passed in
    dedupEncoder,   \* what the embedding model computes
    dedupThreshold, \* threshold, as a fraction
    dedupOut,       \* the list returned
    dedupAgain,     \* the list returned for dedupOut
    dedupPc,        \* "start" | "once" | "twice"
    \* ---- one search() call of a SearXNGService ----
    searchOutcome,  \* what the GET /search does
    searchEncoder,  \* what the embedding model computes
    searchModelLoaded,\* self._embedding_model is not None, before the call
    searchLoadOk,   \* whether the model can be constructed
    searchCount,    \* the count argument
    searchOut,      \* what the call raised or returned
    searchPc,       \* "start" | "done"
    \* ---- the chat turns of one server process and their SearXNGService instances ----
    procService,    \* per request: "none" | "unloaded" | "loaded" (its instance and that instance's _embedding_model)
    procQueries,    \* per request: the search() calls made
    procLoads,      \* SentenceTransformer(...) constructions completed in the process
    \* ---- one _normalize_title call ----
    titleIn,        \* the title passed in
    titleOut,       \* the normalized title returned
    titlePc,        \* "start" | "done"
    \* ---- one health_check() call ----
    healthzOutcome, \* what GET /healthz does
    searchProbeOutcome,\* what GET /search?q=test would do
    healthOut,      \* what the call returned and the requests it issued
    healthPc,       \* "start" | "done"
    \* ---- the lazily loaded vision model (vision_service.py) ----
    vision_model,   \* _model: 0 for None, else the id of the load that made it
    vision_processor,\* _processor: 0 for None, else the id of the load that made it
    visionLoads,    \* number of AutoModelForCausalLM.from_pretrained calls
    visionPc,       \* position of each executor thread in load_florence_model
    visionRet,      \* the (model, processor) pair each call returned
    \* ---- the installed-models cache (models.py) ----
    models_cache,   \* _models_cache; data 0 for None, else the id of the listing
    now,            \* time.time(), in seconds
    listPc,         \* position of each GET /models/installed request
    listTime,       \* current_time of each request
    listOut         \* what each request returned

plannerVars == <<messages, plannerPc, llmCalls, response, decision>>
normalizeVars == <<normUrl, normOut, normPc>>
filterVars == <<filterIn, filterOut, filterPc>>
diversityVars == <<divIn, divMax, divOut, divPc>>

chatVars == <<chatMessages, use_web_search, clock, encoder, chatPc, chatDecision,
              embedding_model, queryIdx, all_results, seen_urls, web_results,
              url_content, searxng_error_message, promptSection, query_results,
              turnRequests>>

freshnessVars == <<freshIn, freshClock, freshOut, freshTop, freshPc>>

dedupVars == <<dedupIn, dedupEncoder, dedupThreshold, dedupOut, dedupAgain, dedupPc>>

searchVars == <<searchOutcome, searchEncoder, searchModelLoaded, searchLoadOk, searchCount, searchOut, searchPc>>

procVars == <<procService, procQueries, procLoads>>

titleVars == <<titleIn, titleOut, titlePc>>

healthVars == <<healthzOutcome, searchProbeOutcome, healthOut, healthPc>>

visionVars == <<vision_model, vision_processor, visionLoads, visionPc, visionRet>>

modelsVars == <<models_cache, now, listPc, listTime, listOut>>

vars == <<plannerVars, normalizeVars, filterVars, diversityVars, chatVars, freshnessVars, dedupVars, searchVars, procVars, titleVars, healthVars, visionVars, modelsVars>>

\* Each specification below exercises one component; the variables of the
\* others stay at these values.
PlannerIdle ==
    /\ messages = <<>>
    /\ plannerPc = "idle"
    /\ llmCalls = <<>>
    /\ response = [kind |-> "none", text |-> <<>>]
    /\ decision = [type |-> "none"]

NormalizeIdle == normUrl = <<>> /\ normOut = <<>> /\ normPc = "idle"

FilterIdle == filterIn = <<>> /\ filterOut = <<>> /\ filterPc = "idle"

DiversityIdle == divIn = <<>> /\ divMax = 0 /\ divOut = <<>> /\ divPc = "idle"

ChatIdle ==
    /\ chatMessages = <<>>
    /\ use_web_search = FALSE
    /\ clock = [date |-> <<>>, year |-> 0]
    /\ encoder = <<>>
    /\ chatPc = "idle"
    /\ chatDecision = [type |-> "none"]
    /\ embedding_model = FALSE
    /\ query_results = <<>>
    /\ turnRequests = <<>>
    /\ queryIdx = 0
    /\ all_results = <<>>
    /\ seen_urls = {}
    /\ web_results = <<>>
    /\ url_content = <<>>
    /\ searxng_error_message = <<>>
    /\ promptSection = "none"

FreshnessIdle ==
    /\ freshIn = <<>>
    /\ freshClock = [date |-> <<>>, year |-> 0]
    /\ freshOut = <<>>
    /\ freshTop = <<>>
    /\ freshPc = "idle"

DedupIdle ==
    /\ dedupIn = <<>>
    /\ dedupEncoder = <<>>
    /\ dedupThreshold = [num |-> 0, den |-> 1]
    /\ dedupOut = <<>>
    /\ dedupAgain = <<>>
    /\ dedupPc = "idle"

SearchIdle ==
    /\ searchOutcome = [kind |-> "idle"]
    /\ searchEncoder = <<>>
    /\ searchModelLoaded = FALSE
    /\ searchLoadOk = TRUE
    /\ searchCount = 0
    /\ searchOut = [raised |-> "none", results |-> <<>>, embedding_model |-> FALSE]
    /\ searchPc = "idle"

ProcessIdle ==
    /\ procService = <<>>
    /\ procQueries = <<>>
    /\ procLoads = 0

TitleIdle ==
    /\ titleIn = <<>>
    /\ titleOut = <<>>
    /\ titlePc = "idle"

HealthIdle ==
    /\ healthzOutcome = [kind |-> "idle"]
    /\ searchProbeOutcome = [kind |-> "idle"]
    /\ healthOut = [raised |-> "none", value |-> FALSE, requests |-> <<>>]
    /\ healthPc = "idle"

VisionIdle ==
    /\ vision_model = 0
    /\ vision_processor = 0
    /\ visionLoads = 0
    /\ visionPc = <<>>
    /\ visionRet = <<>>

ModelsIdle ==
    /\ models_cache = [data |-> 0, timestamp |-> 0, ttl |-> 0]
    /\ now = 0
    /\ listPc = <<>>
    /\ listTime = <<>>
    /\ listOut = <<>>

----------------------------------------------------------------------------
(* Strings as character sequences.                                         *)

\* s[i..] starts with p (1-based i)
StartsWithAt(s, i, p) ==
    /\ i >= 1
    /\ i + Len(p) - 1 <= Len(s)
    /\ \A j \in 1..Len(p) : s[i + j - 1] = p[j]

\* Python: p in s
Contains(s, p) == \E i \in 1..(Len(s) - Len(p) + 1) : StartsWithAt(s, i, p)

\* Python: s.endswith(p)
EndsWith(s, p) == Len(s) >= Len(p) /\ StartsWithAt(s, Len(s) - Len(p) + 1, p)

\* Python: s.startswith(p)
StartsWith(s, p) == StartsWithAt(s, 1, p)

\* Python regex \s on the characters the model uses
IsSpace(c) == c \in {" ", "\t", "\n"}

\* s[i..] (1-based), empty when i > Len(s)
Drop(s, i) == IF i > Len(s) THEN <<>> ELSE SubSeq(s, i, Len(s))

\* s[1..i-1]
Take(s, i) == IF i <= 1 THEN <<>> ELSE SubSeq(s, 1, i - 1)

\* a mutant of Prefix: one element more than asked for
Prefix_OneMore(seq, n) == IF Len(seq) <= n + 1 THEN seq ELSE SubSeq(seq, 1, n + 1)

\* Python: seq[:n], n >= 0
Prefix(seq, n) == IF Len(seq) <= n THEN seq ELSE SubSeq(seq, 1, n)

\* F applied to the value of v: a statement's result is computed once and
\* then handed on, as an assignment does
Then(v, F(_)) == CHOOSE r \in { F(x) : x \in {v} } : TRUE

\* the least index of character c in s, 0 when absent (Python: s.find(c) + 1)
RECURSIVE FindFrom(_, _, _)
FindFrom(s, c, i) ==
    IF i > Len(s) THEN 0
    ELSE IF s[i] = c THEN i
    ELSE FindFrom(s, c, i + 1)

Find(s, c) == FindFrom(s, c, 1)

S_http == <<"h", "t", "t", "p">>
S_colon_slashes == <<":", "/", "/">>
S_s_colon_slashes == <<"s", ":", "/", "/">>

\* re.search(r'https?://[^\s]+', content) is not None
RegexHasUrl(content) ==
    \E i \in 1..Len(content) :
        /\ StartsWithAt(content, i, S_http)
        /\ \/ /\ StartsWithAt(content, i + 4, S_colon_slashes)
              /\ i + 7 <= Len(content)
              /\ ~IsSpace(content[i + 7])
           \/ /\ StartsWithAt(content, i + 4, S_s_colon_slashes)
              /\ i + 8 <= Len(content)
              /\ ~IsSpace(content[i + 8])

----------------------------------------------------------------------------
(* JSON values and json.loads over token sequences.                        *)

\* A token of a reply: t is "{", "}", "[", "]", ":", ",", "str", "num",
\* "null" or "prose"; s is the text of a "str" token.
Tok(t) == [t |-> t, s |-> <<>>]
TStr(chars) == [t |-> "str", s |-> chars]

\* A parsed JSON value. k is "str", "num", "null", "list" or "dict";
\* s is a string's text, items a list's elements, fields a dict's
\* (key, value) members in document order.
JStr(chars) == [k |-> "str", s |-> chars, items |-> <<>>, fields |-> <<>>]
JNum == [k |-> "num", s |-> <<>>, items |-> <<>>, fields |-> <<>>]
JNull == [k |-> "null", s |-> <<>>, items |-> <<>>, fields |-> <<>>]
JList(items) == [k |-> "list", s |-> <<>>, items |-> items, fields |-> <<>>]
JDict(fields) == [k |-> "dict", s |-> <<>>, items |-> <<>>, fields |-> fields]

ParseFail == [ok |-> FALSE, val |-> JNull, next |-> 0]
ParseOk(v, n) == [ok |-> TRUE, val |-> v, next |-> n]

RECURSIVE ParseValue(_, _)
RECURSIVE ParseElems(_, _, _)
RECURSIVE ParseMembers(_, _, _)

\* the JSON value starting at token i; next is the index after it
ParseValue(toks, i) ==
    IF i > Len(toks) THEN ParseFail
    ELSE CASE toks[i].t = "str" -> ParseOk(JStr(toks[i].s), i + 1)
           [] toks[i].t = "num" -> ParseOk(JNum, i + 1)
           [] toks[i].t = "null" -> ParseOk(JNull, i + 1)
           [] toks[i].t = "[" ->
                IF i + 1 <= Len(toks) /\ toks[i + 1].t = "]"
                THEN ParseOk(JList(<<>>), i + 2)
                ELSE ParseElems(toks, i + 1, <<>>)
           [] toks[i].t = "{" ->
                IF i + 1 <= Len(toks) /\ toks[i + 1].t = "}"
                THEN ParseOk(JDict(<<>>), i + 2)
                ELSE ParseMembers(toks, i + 1, <<>>)
           [] OTHER -> ParseFail

\* value ("," value)* "]" starting at token i, after the elements in acc
ParseElems(toks, i, acc) ==
    LET v == ParseValue(toks, i) IN
    IF ~v.ok \/ v.next > Len(toks) THEN ParseFail
    ELSE CASE toks[v.next].t = "]" -> ParseOk(JList(Append(acc, v.val)), v.next + 1)
           [] toks[v.next].t = "," -> ParseElems(toks, v.next + 1, Append(acc, v.val))
           [] OTHER -> ParseFail

\* str ":" value ("," str ":" value)* "}" starting at token i
ParseMembers(toks, i, acc) ==
    IF i + 1 > Len(toks) \/ toks[i].t # "str" \/ toks[i + 1].t # ":" THEN ParseFail
    ELSE LET v == ParseValue(toks, i + 2)
             m == [key |-> toks[i].s, val |-> v.val]
         IN  IF ~v.ok \/ v.next > Len(toks) THEN ParseFail
             ELSE CASE toks[v.next].t = "}" -> ParseOk(JDict(Append(acc, m)), v.next + 1)
                    [] toks[v.next].t = "," -> ParseMembers(toks, v.next + 1, Append(acc, m))
                    [] OTHER -> ParseFail

\* json.loads(text): the value when the whole text is one JSON value,
\* ok = FALSE when json.loads raises
JsonLoads(toks) ==
    LET v == ParseValue(toks, 1) IN
    IF v.ok /\ v.next = Len(toks) + 1 THEN v ELSE ParseFail

\* the greatest index of a token of type t in toks, 0 when absent
RECURSIVE LastTok(_, _, _)
LastTok(toks, t, i) ==
    IF i < 1 THEN 0
    ELSE IF toks[i].t = t THEN i
    ELSE LastTok(toks, t, i - 1)

\* the least index of a token of type t in toks, 0 when absent
RECURSIVE FirstTok(_, _, _)
FirstTok(toks, t, i) ==
    IF i > Len(toks) THEN 0
    ELSE IF toks[i].t = t THEN i
    ELSE FirstTok(toks, t, i + 1)

\* re.search(open + '.*' + close, text, re.DOTALL): greedy, so the match
\* runs from the first opening bracket to the LAST closing bracket after it.
\* <<>> stands for "no match" (a match is never empty).
RegexBracketed(toks, open, close) ==
    LET i == FirstTok(toks, open, 1)
        j == LastTok(toks, close, Len(toks))
    IN  IF i = 0 \/ j < i THEN <<>> ELSE SubSeq(toks, i, j)

\* dict.get(key): the value of the LAST member with that key (json.loads
\* keeps the last of duplicate keys); present = FALSE when the key is absent
RECURSIVE DictGetFrom(_, _, _)
DictGetFrom(fields, key, i) ==
    IF i < 1 THEN [present |-> FALSE, val |-> JNull]
    ELSE IF fields[i].key = key THEN [present |-> TRUE, val |-> fields[i].val]
    ELSE DictGetFrom(fields, key, i - 1)

DictGet(d, key) == DictGetFrom(d.fields, key, Len(d.fields))

----------------------------------------------------------------------------
(* urllib.parse as SearXNGService uses it, on character sequences.  The    *)
(* URLs of the model hold no whitespace, control or '%' characters, so     *)
(* urlsplit's leading-whitespace strip and unquote's percent-decoding have *)
(* nothing to act on.                                                      *)

UpperCase == <<"A", "B", "C", "D", "E", "F", "G", "H", "I", "J", "K", "L", "M", "N", "O", "P", "Q", "R", "S", "T", "U", "V", "W", "X", "Y", "Z">>
LowerCase == <<"a", "b", "c", "d", "e", "f", "g", "h", "i", "j", "k", "l", "m", "n", "o", "p", "q", "r", "s", "t", "u", "v", "w", "x", "y", "z">>
Digits == <<"0", "1", "2", "3", "4", "5", "6", "7", "8", "9">>

InSeq(c, s) == \E i \in 1..Len(s) : s[i] = c

\* Python: c.lower()
LowerChar(c) ==
    IF InSeq(c, UpperCase) THEN LowerCase[Find(UpperCase, c)] ELSE c

\* Python: s.lower()
Lower(s) == [i \in 1..Len(s) |-> LowerChar(s[i])]

\* urllib.parse.scheme_chars
IsSchemeChar(c) ==
    InSeq(c, LowerCase) \/ InSeq(c, UpperCase) \/ InSeq(c, Digits) \/ c \in {"+", "-", "."}

\* Python: s.split(sep) for a one-character sep
RECURSIVE SplitOn(_, _)
SplitOn(s, sep) ==
    LET i == Find(s, sep)
    IN  IF i = 0 THEN <<s>>
        ELSE <<Take(s, i)>> \o SplitOn(Drop(s, i + 1), sep)

\* Python: s.rstrip(c) for a one-character c
RECURSIVE RStrip(_, _)
RStrip(s, c) ==
    IF Len(s) > 0 /\ s[Len(s)] = c THEN RStrip(Take(s, Len(s)), c) ELSE s

\* Python: s.replace(old, new), every non-overlapping occurrence, left to right
RECURSIVE Replace(_, _, _)
Replace(s, old, new) ==
    IF Len(s) = 0 THEN <<>>
    ELSE IF StartsWith(s, old) THEN new \o Replace(Drop(s, Len(old) + 1), old, new)
    ELSE <<s[1]>> \o Replace(Drop(s, 2), old, new)

\* Python: sep.join(parts)
RECURSIVE Join(_, _)
Join(parts, sep) ==
    IF Len(parts) = 0 THEN <<>>
    ELSE IF Len(parts) = 1 THEN parts[1]
    ELSE parts[1] \o sep \o Join(Tail(parts), sep)

\* the least index >= 1 of a character of set cs in s, Len(s) + 1 when none
RECURSIVE FindAnyFrom(_, _, _)
FindAnyFrom(s, cs, i) ==
    IF i > Len(s) THEN Len(s) + 1
    ELSE IF s[i] \in cs THEN i
    ELSE FindAnyFrom(s, cs, i + 1)

\* the greatest index of character c in s, 0 when absent
RECURSIVE RFindFrom(_, _, _)
RFindFrom(s, c, i) ==
    IF i < 1 THEN 0
    ELSE IF s[i] = c THEN i
    ELSE RFindFrom(s, c, i - 1)

\* schemes of urllib.parse.uses_netloc and uses_params that the model meets
SchemesWithNetloc == { <<>>, <<"h", "t", "t", "p">>, <<"h", "t", "t", "p", "s">>, <<"f", "t", "p">> }
SchemesWithParams == { <<>>, <<"h", "t", "t", "p">>, <<"h", "t", "t", "p", "s">>, <<"f", "t", "p">> }

\* urlsplit's scheme step: [scheme, rest]
SplitScheme(url) ==
    LET i == Find(url, ":")
    IN  IF /\ i > 1
           /\ InSeq(url[1], LowerCase) \/ InSeq(url[1], UpperCase)
           /\ \A j \in 1..(i - 1) : IsSchemeChar(url[j])
        THEN [scheme |-> Lower(Take(url, i)), rest |-> Drop(url, i + 1)]
        ELSE [scheme |-> <<>>, rest |-> url]

\* urlsplit's netloc step (_splitnetloc): [netloc, rest]
SplitNetloc(rest) ==
    IF StartsWith(rest, <<"/", "/">>)
    THEN LET delim == FindAnyFrom(rest, {"/", "?", "#"}, 3)
         IN  [netloc |-> SubSeq(rest, 3, delim - 1), rest |-> Drop(rest, delim)]
    ELSE [netloc |-> <<>>, rest |-> rest]

\* _splitparams(path): [path, params]
SplitParams(path) ==
    LET slash == RFindFrom(path, "/", Len(path))
        i == IF slash > 0 THEN FindFrom(path, ";", slash) ELSE Find(path, ";")
    IN  IF i = 0 THEN [path |-> path, params |-> <<>>]
        ELSE [path |-> Take(path, i), params |-> Drop(path, i + 1)]

\* urlparse(url): the six components; raised = TRUE for urlsplit's
\* ValueError("Invalid IPv6 URL") on an unmatched bracket in the netloc
UrlParse(url) ==
    LET s == SplitScheme(url)
        n == SplitNetloc(s.rest)
        hashAt == Find(n.rest, "#")
        noFrag == IF hashAt = 0 THEN n.rest ELSE Take(n.rest, hashAt)
        fragment == IF hashAt = 0 THEN <<>> ELSE Drop(n.rest, hashAt + 1)
        qAt == Find(noFrag, "?")
        rawPath == IF qAt = 0 THEN noFrag ELSE Take(noFrag, qAt)
        query == IF qAt = 0 THEN <<>> ELSE Drop(noFrag, qAt + 1)
        p == IF s.scheme \in SchemesWithParams /\ InSeq(";", rawPath)
             THEN SplitParams(rawPath)
             ELSE [path |-> rawPath, params |-> <<>>]
    IN  [ raised |-> InSeq("[", n.netloc) # InSeq("]", n.netloc),
          scheme |-> s.scheme,
          netloc |-> n.netloc,
          path |-> p.path,
          params |-> p.params,
          query |-> query,
          fragment |-> fragment ]

\* urlunparse((scheme, netloc, path, params, query, fragment))
UrlUnparse(scheme, netloc, path, params, query, fragment) ==
    LET u1 == IF Len(params) > 0 THEN path \o <<";">> \o params ELSE path
        u2 == IF \/ Len(netloc) > 0
                 \/ (Len(scheme) > 0 /\ scheme \in SchemesWithNetloc /\ ~StartsWith(u1, <<"/", "/">>))
              THEN <<"/", "/">> \o netloc \o (IF Len(u1) > 0 /\ u1[1] # "/" THEN <<"/">> \o u1 ELSE u1)
              ELSE u1
        u3 == IF Len(scheme) > 0 THEN scheme \o <<":">> \o u2 ELSE u2
        u4 == IF Len(query) > 0 THEN u3 \o <<"?">> \o query ELSE u3
    IN  IF Len(fragment) > 0 THEN u4 \o <<"#">> \o fragment ELSE u4

\* unquote(s.replace('+', ' ')) of parse_qs, without percent escapes
UnquotePlus(s) == [i \in 1..Len(s) |-> IF s[i] = "+" THEN " " ELSE s[i]]

\* dict insertion: append value v to key k's list, a new key goes last
RECURSIVE AddParam(_, _, _)
AddParam(params, k, v) ==
    IF Len(params) = 0 THEN <<[key |-> k, vals |-> <<v>>]>>
    ELSE IF params[1].key = k
         THEN <<[key |-> k, vals |-> Append(params[1].vals, v)]>> \o Tail(params)
         ELSE <<params[1]>> \o AddParam(Tail(params), k, v)

\* parse_qs(query) with its defaults (keep_blank_values=False,
\* strict_parsing=False, separator='&'): a field without '=' or with an
\* empty value is skipped.  The dict is a sequence of [key, vals] in
\* insertion order.
RECURSIVE ParseQsFields(_, _)
ParseQsFields(pieces, acc) ==
    IF Len(pieces) = 0 THEN acc
    ELSE LET nv == pieces[1]
             eq == Find(nv, "=")
             name == UnquotePlus(Take(nv, eq))
             value == UnquotePlus(Drop(nv, eq + 1))
         IN  IF Len(nv) = 0 \/ eq = 0 \/ Len(value) = 0
             THEN ParseQsFields(Tail(pieces), acc)
             ELSE ParseQsFields(Tail(pieces), AddParam(acc, name, value))

ParseQs(query) ==
    IF Len(query) = 0 THEN <<>> ELSE ParseQsFields(SplitOn(query, "&"), <<>>)

----------------------------------------------------------------------------
(* SearXNGService._normalize_url and _filter_urls                          *)

\* tracking_params of _normalize_url
tracking_params ==
    << <<"u", "t", "m", "_", "s", "o", "u", "r", "c", "e">>, <<"u", "t", "m", "_", "m", "e", "d", "i", "u", "m">>, <<"u", "t", "m", "_", "c", "a", "m", "p", "a", "i", "g", "n">>, <<"u", "t", "m", "_", "c", "o", "n", "t", "e", "n", "t">>, <<"u", "t", "m", "_", "t", "e", "r", "m">>,
       <<"f", "b", "c", "l", "i", "d">>, <<"g", "c", "l", "i", "d">>, <<"m", "s", "c", "l", "k", "i", "d">>, <<"m", "c", "_", "c", "i", "d">>, <<"m", "c", "_", "e", "i", "d">> >>

\* for param in tracking_params: params.pop(param, None)
PopTracking(params) ==
    SelectSeq(params, LAMBDA p : ~\E i \in 1..Len(tracking_params) : tracking_params[i] = p.key)

\* '&'.join(f"{k}={v[0]}" for k, v in params.items())
CleanQuery(params) ==
    Join([i \in 1..Len(params) |-> params[i].key \o <<"=">> \o params[i].vals[1]], <<"&">>)

\* _normalize_url(url); the bare except returns the url unchanged
NormalizeUrl(url) ==
    LET parsed == UrlParse(url)
    IN  IF parsed.raised THEN url
        ELSE UrlUnparse(parsed.scheme, parsed.netloc, RStrip(parsed.path, "/"),
                        parsed.params, CleanQuery(PopTracking(ParseQs(parsed.query))), <<>>)

\* the AMP test of _filter_urls on the lower-cased url
IsAmpUrl(url) ==
    Contains(url, <<"/", "a", "m", "p", "/">>) \/ Contains(url, <<"?", "a", "m", "p", "=">>)
        \/ Contains(url, <<".", "a", "m", "p">>) \/ Contains(url, <<"/", "a", "m", "p", ".">>)

\* the RSS/XML test of _filter_urls on the lower-cased url
IsFeedUrl(url) ==
    EndsWith(url, <<".", "r", "s", "s">>) \/ EndsWith(url, <<".", "x", "m", "l">>)
        \/ Contains(url, <<"/", "r", "s", "s", "/">>) \/ Contains(url, <<"/", "f", "e", "e", "d", "/">>)

\* the tracking/redirect test of _filter_urls on the lower-cased url
IsTrackingUrl(url) ==
    Contains(url, <<"t", "r", "a", "c", "k", "i", "n", "g">>) \/ Contains(url, <<"r", "e", "d", "i", "r", "e", "c", "t">>) \/ Contains(url, <<"g", "o", "t", "o">>)

\* _filter_urls(results): the results whose url passes the three tests,
\* each with its url rewritten by _normalize_url
RECURSIVE FilterUrls(_)
FilterUrls(results) ==
    IF Len(results) = 0 THEN <<>>
    ELSE LET result == results[1]
             url == Lower(result.url)
         IN  IF IsAmpUrl(url) \/ IsFeedUrl(url) \/ IsTrackingUrl(url)
             THEN FilterUrls(Tail(results))
             ELSE <<[result EXCEPT !.url = NormalizeUrl(result.url)]>>
                      \o FilterUrls(Tail(results))

----------------------------------------------------------------------------
(* SearXNGService._ensure_diversity                                        *)

\* a value no Python string equals: None
PyNone == <<"None">>

\* a normalized result as _parse_results builds it
MkResult(name, url, summary, score) ==
    [ name |-> name, url |-> url, summary |-> summary,
      engine |-> <<"u", "n", "k", "n", "o", "w", "n">>, score |-> score, datePublished |-> PyNone ]

\* domain_counts.get(domain, 0)
DomainCount(domain_counts, domain) ==
    IF domain \in DOMAIN domain_counts THEN domain_counts[domain] ELSE 0

\* domain_counts[domain] = count + 1
SetDomainCount(domain_counts, domain, n) ==
    [d \in (DOMAIN domain_counts) \cup {domain} |->
        IF d = domain THEN n ELSE domain_counts[d]]

\* a mutant of UnderDomainCap: the cap test off by one
UnderDomainCap_OffByOne(count, max_per_domain) == count <= max_per_domain

\* if count < max_per_domain
UnderDomainCap(count, max_per_domain) == count < max_per_domain

\* domain = urlparse(result['url']).netloc.replace('www.', '')
DomainKey(parsed) == Replace(parsed.netloc, <<"w", "w", "w", ".">>, <<>>)

\* The loop of _ensure_diversity from the remaining results on; a result
\* whose url makes urlparse raise is appended by the except branch and
\* counted under no domain.
RECURSIVE DiversityLoop(_, _, _, _)
DiversityLoop(results, max_per_domain, domain_counts, diverse) ==
    IF Len(results) = 0 THEN diverse
    ELSE LET result == results[1]
             parsed == UrlParse(result.url)
             domain == DomainKey(parsed)
             count == DomainCount(domain_counts, domain)
         IN  IF parsed.raised
             THEN DiversityLoop(Tail(results), max_per_domain, domain_counts,
                                Append(diverse, result))
             ELSE IF UnderDomainCap(count, max_per_domain)
             THEN DiversityLoop(Tail(results), max_per_domain,
                                SetDomainCount(domain_counts, domain, count + 1),
                                Append(diverse, result))
             ELSE DiversityLoop(Tail(results), max_per_domain, domain_counts, diverse)

\* _ensure_diversity(results, max_per_domain)
EnsureDiversity(results, max_per_domain) ==
    DiversityLoop(results, max_per_domain, <<>>, <<>>)

----------------------------------------------------------------------------
(* SearXNGService._clean_text and _normalize_title: the regular            *)
(* expressions computed on character sequences.  The texts of the model    *)
(* hold ASCII characters only.                                             *)

IsDigit(c) == InSeq(c, Digits)

\* Python regex \w on ASCII
IsWordChar(c) == InSeq(c, LowerCase) \/ InSeq(c, UpperCase) \/ IsDigit(c) \/ c = "_"

\* the number of consecutive whitespace characters of s from index i on
RECURSIVE SpaceRun(_, _)
SpaceRun(s, i) ==
    IF i >= 1 /\ i <= Len(s) /\ IsSpace(s[i]) THEN 1 + SpaceRun(s, i + 1) ELSE 0

\* the number of consecutive digits of s from index i on
RECURSIVE DigitRun(_, _)
DigitRun(s, i) ==
    IF i >= 1 /\ i <= Len(s) /\ IsDigit(s[i]) THEN 1 + DigitRun(s, i + 1) ELSE 0

CharAt(s, i) == IF i >= 1 /\ i <= Len(s) THEN s[i] ELSE ""

Min(a, b) == IF a <= b THEN a ELSE b

\* The length of the match of \s{m,}-\s{m,}\d{1,2}/\d{1,2}/\d{2,4} at index
\* i of s, 0 when it does not match there (m = 1: \s+, m = 0: \s*).
DateMatchLen(s, i, m) ==
    LET a == SpaceRun(s, i)
        dash == i + a
        b == SpaceRun(s, dash + 1)
        k == dash + 1 + b
        d1 == DigitRun(s, k)
        n == k + d1 + 1
        d2 == DigitRun(s, n)
        y == n + d2 + 1
        d3 == DigitRun(s, y)
    IN  IF /\ a >= m /\ CharAt(s, dash) = "-" /\ b >= m
           /\ d1 \in {1, 2} /\ CharAt(s, k + d1) = "/"
           /\ d2 \in {1, 2} /\ CharAt(s, n + d2) = "/"
           /\ d3 >= 2
        THEN (y + Min(d3, 4)) - i
        ELSE 0

\* re.sub(r'\s+-\s+\d{1,2}/\d{1,2}/\d{2,4}', '', s) for m = 1, and
\* re.sub(r'\s*-\s*\d{1,2}/\d{1,2}/\d{2,4}', '', s) for m = 0
RECURSIVE SubDates(_, _, _)
SubDates(s, i, m) ==
    IF i > Len(s) THEN <<>>
    ELSE LET n == DateMatchLen(s, i, m)
         IN  IF n > 0 THEN SubDates(s, i + n, m)
             ELSE <<s[i]>> \o SubDates(s, i + 1, m)

\* re.sub(r'Click here.*', '', s, flags=re.IGNORECASE): '.' stops at a newline
RECURSIVE SubClickHere(_, _)
SubClickHere(s, i) ==
    IF i > Len(s) THEN <<>>
    ELSE IF StartsWithAt(Lower(s), i, <<"c", "l", "i", "c", "k", " ", "h", "e", "r", "e">>)
         THEN LET nl == FindFrom(s, "\n", i)
              IN  IF nl = 0 THEN <<>> ELSE SubClickHere(s, nl)
         ELSE <<s[i]>> \o SubClickHere(s, i + 1)

\* re.sub(r'\.\.\.$', '', s): '$' matches at the end and before a final newline
SubTrailingEllipsis(s) ==
    LET body == IF EndsWith(s, <<".", ".", ".", "\n">>) THEN Take(s, Len(s) - 3)
                ELSE IF EndsWith(s, <<".", ".", ".">>) THEN Take(s, Len(s) - 2)
                ELSE s
    IN  IF EndsWith(s, <<".", ".", ".", "\n">>) THEN body \o <<"\n">> ELSE body

\* re.sub(r'\s+', ' ', s)
RECURSIVE CollapseSpaces(_, _)
CollapseSpaces(s, i) ==
    IF i > Len(s) THEN <<>>
    ELSE LET n == SpaceRun(s, i)
         IN  IF n > 0 THEN <<" ">> \o CollapseSpaces(s, i + n)
             ELSE <<s[i]>> \o CollapseSpaces(s, i + 1)

\* Python: s.strip() of a string whose whitespace runs are single spaces
Strip(s) ==
    LET a == SpaceRun(s, 1)
        t == Drop(s, a + 1)
    IN  IF Len(t) > 0 /\ IsSpace(t[Len(t)]) THEN Take(t, Len(t)) ELSE t

\* _clean_text(text); None and "" give ""
CleanText(text) ==
    IF text = PyNone \/ Len(text) = 0 THEN <<>>
    ELSE Then(Replace(text, <<"R", "e", "a", "d", " ", "m", "o", "r", "e", ".", ".", ".">>, <<>>), LAMBDA t1 :
         Then(SubClickHere(t1, 1), LAMBDA t2 :
         Then(SubTrailingEllipsis(t2), LAMBDA t3 :
         Then(SubDates(t3, 1, 1), LAMBDA t4 :
         Then(CollapseSpaces(t4, 1), Strip)))))

\* the publishers of _normalize_title's suffix pattern
Publishers ==
    << <<"c", "n", "n">>, <<"b", "b", "c">>, <<"r", "e", "u", "t", "e", "r", "s">>, <<"b", "l", "o", "o", "m", "b", "e", "r", "g">>, <<"f", "o", "r", "b", "e", "s">>, <<"t", "e", "c", "h", "c", "r", "u", "n", "c", "h">>, <<"t", "h", "e", " ", "v", "e", "r", "g", "e">> >>

Months ==
    << <<"j", "a", "n">>, <<"f", "e", "b">>, <<"m", "a", "r">>, <<"a", "p", "r">>, <<"m", "a", "y">>, <<"j", "u", "n">>,
       <<"j", "u", "l">>, <<"a", "u", "g">>, <<"s", "e", "p">>, <<"o", "c", "t">>, <<"n", "o", "v">>, <<"d", "e", "c">> >>

\* Whether \s*-\s*(cnn|bbc|...).*$ matches at index i of s: optional
\* whitespace, a dash, optional whitespace, a publisher, then the rest of
\* the line up to the end of the string (or its final newline).
PublisherMatchAt(s, i) ==
    LET a == SpaceRun(s, i)
        dash == i + a
        b == SpaceRun(s, dash + 1)
        k == dash + 1 + b
        nl == FindFrom(s, "\n", k)
    IN  /\ CharAt(s, dash) = "-"
        /\ \E p \in 1..Len(Publishers) : StartsWithAt(Lower(s), k, Publishers[p])
        /\ nl = 0 \/ nl = Len(s)

\* re.sub(r'\s*-\s*(cnn|bbc|...).*$', '', s, flags=re.IGNORECASE)
RECURSIVE SubPublisher(_, _)
SubPublisher(s, i) ==
    IF i > Len(s) THEN <<>>
    ELSE IF PublisherMatchAt(s, i)
         THEN IF s[Len(s)] = "\n" THEN <<"\n">> ELSE <<>>
         ELSE <<s[i]>> \o SubPublisher(s, i + 1)

\* The length of the match of \s*\|\s*\d{1,2}\s+(jan|...|dec) at index i
\* of s (case-insensitive), 0 when it does not match there.
MonthMatchLen(s, i) ==
    LET a == SpaceRun(s, i)
        bar == i + a
        b == SpaceRun(s, bar + 1)
        k == bar + 1 + b
        d == DigitRun(s, k)
        c == SpaceRun(s, k + d)
        mo == k + d + c
    IN  IF /\ CharAt(s, bar) = "|"
           /\ d \in {1, 2}
           /\ c >= 1
           /\ \E p \in 1..Len(Months) : StartsWithAt(Lower(s), mo, Months[p])
        THEN (mo + 3) - i
        ELSE 0

\* re.sub(r'\s*\|\s*\d{1,2}\s+(jan|...|dec)', '', s, flags=re.IGNORECASE)
RECURSIVE SubMonthDates(_, _)
SubMonthDates(s, i) ==
    IF i > Len(s) THEN <<>>
    ELSE LET n == MonthMatchLen(s, i)
         IN  IF n > 0 THEN SubMonthDates(s, i + n)
             ELSE <<s[i]>> \o SubMonthDates(s, i + 1)

\* re.sub(r'[^\w\s]', ' ', s)
SubSpecialChars(s) ==
    [i \in 1..Len(s) |-> IF IsWordChar(s[i]) \/ IsSpace(s[i]) THEN s[i] ELSE " "]

\* _normalize_title(title); None and "" give ""
NormalizeTitle(title) ==
    IF title = PyNone \/ Len(title) = 0 THEN <<>>
    ELSE Then(Lower(title), LAMBDA t1 :
         Then(SubPublisher(t1, 1), LAMBDA t2 :
         Then(SubDates(t2, 1, 0), LAMBDA t3 :
         Then(SubMonthDates(t3, 1), LAMBDA t4 :
         Then(SubSpecialChars(t4), LAMBDA t5 :
         Then(CollapseSpaces(t5, 1), Strip))))))

----------------------------------------------------------------------------
(* SearXNGService.search: _parse_results, _deduplicate_results, and the    *)
(* pipeline; score_by_freshness.                                           *)

\* Python: d.get(key, default); a dict is a record whose domain is its keys
Get(d, key, default) == IF key \in DOMAIN d THEN d[key] ELSE default

\* Python truthiness of a str or None
Truthy(v) == v # PyNone /\ v # <<>>

\* Python truthiness of a number
TruthyNum(n) == n # 0

S_Untitled == <<"U", "n", "t", "i", "t", "l", "e", "d">>

\* _parse_results: one normalized result per raw result
ParseResult(result) ==
    LET content == Get(result, "content", <<>>)
        raw_summary == IF Truthy(content) THEN content ELSE Get(result, "title", <<>>)
    IN  [ name |-> Get(result, "title", S_Untitled),
          url |-> Get(result, "url", <<>>),
          summary |-> CleanText(raw_summary),
          engine |-> Get(result, "engine", <<"u", "n", "k", "n", "o", "w", "n">>),
          score |-> Get(result, "score", 0),
          datePublished |-> Get(result, "publishedDate", PyNone) ]

ParseResults(raw_results) == [i \in 1..Len(raw_results) |-> ParseResult(raw_results[i])]

\* text = f"{title_norm} {result['summary']}"
ComparisonText(result) == NormalizeTitle(result.name) \o <<" ">> \o result.summary

\* the similarity threshold 0.75 as a fraction
ThresholdNum == 3
ThresholdDen == 4

Dot(v1, v2) == v1[1] * v2[1] + v1[2] * v2[2]

\* the default threshold of _deduplicate_results
DefaultThreshold == [num |-> ThresholdNum, den |-> ThresholdDen]

\* a mutant of SimilarityExceeds: similarity >= threshold
SimilarityExceeds_OrEqual(v1, v2, threshold) ==
    LET dot_product == v1[1] * v2[1] + v1[2] * v2[2]
        norm_sq == (v1[1] * v1[1] + v1[2] * v1[2]) * (v2[1] * v2[1] + v2[2] * v2[2])
        lhs_sq == threshold.den * threshold.den * dot_product * dot_product
        rhs_sq == threshold.num * threshold.num * norm_sq
    IN  IF norm_sq = 0 THEN threshold.num <= 0
        ELSE IF threshold.num >= 0 THEN dot_product >= 0 /\ lhs_sq >= rhs_sq
        ELSE dot_product >= 0 \/ lhs_sq <= rhs_sq

\* _cosine_similarity(vec1, vec2) > threshold on integer vectors, for the
\* threshold num/den (den > 0): dot / (|v1| |v2|) > num/den, and
\* 0.0 > num/den when a norm is zero
SimilarityExceeds(v1, v2, threshold) ==
    LET dot_product == Dot(v1, v2)
        norm_sq == Dot(v1, v1) * Dot(v2, v2)
        lhs_sq == threshold.den * threshold.den * dot_product * dot_product
        rhs_sq == threshold.num * threshold.num * norm_sq
    IN  IF norm_sq = 0 THEN threshold.num < 0
        ELSE IF threshold.num >= 0 THEN dot_product > 0 /\ lhs_sq > rhs_sq
        ELSE dot_product >= 0 \/ lhs_sq < rhs_sq

\* similarity > 0.75
SimilarityAbove(v1, v2) == SimilarityExceeds(v1, v2, DefaultThreshold)

\* a mutant of DeduplicateLoop: a result is compared with the result just
\* before it in the input only, kept or not
RECURSIVE DeduplicateLoop_PreviousOnly(_, _, _, _, _)
DeduplicateLoop_PreviousOnly(results, encode, threshold, unique, embeddings) ==
    IF Len(results) = 0 THEN unique
    ELSE Then(encode[ComparisonText(results[1])], LAMBDA embedding :
         LET is_duplicate ==
                 /\ Len(embeddings) > 0
                 /\ SimilarityExceeds(embedding, embeddings[Len(embeddings)], threshold)
         IN  DeduplicateLoop_PreviousOnly(
                 Tail(results), encode, threshold,
                 IF is_duplicate THEN unique ELSE Append(unique, results[1]),
                 Append(embeddings, embedding)))

\* The loop of _deduplicate_results: a result is kept unless its embedding
\* is similar to the embedding of a result kept before it.
RECURSIVE DeduplicateLoop(_, _, _, _, _)
DeduplicateLoop(results, encode, threshold, unique, embeddings) ==
    IF Len(results) = 0 THEN unique
    ELSE Then(encode[ComparisonText(results[1])], LAMBDA embedding :
         LET result == results[1]
             is_duplicate == \E i \in 1..Len(embeddings) :
                                 SimilarityExceeds(embedding, embeddings[i], threshold)
         IN  IF is_duplicate
             THEN DeduplicateLoop(Tail(results), encode, threshold, unique, embeddings)
             ELSE DeduplicateLoop(Tail(results), encode, threshold,
                                  Append(unique, result), Append(embeddings, embedding)))

\* _deduplicate_results(results, threshold): at most one result is
\* returned as is, without touching the embedding model
DeduplicateResults(results, encode, threshold) ==
    IF Len(results) <= 1 THEN results
    ELSE DeduplicateLoop(results, encode, threshold, <<>>, <<>>)

\* _ensure_diversity's default max_per_domain
DefaultMaxPerDomain == 2

\* whether _deduplicate_results reaches the embedding model
NeedsEmbeddingModel(filtered) == Len(filtered) > 1

\* an entry of the raw results that is JSON null instead of an object
RawNull == [null |-> TRUE]

\* the classes of the exceptions the stages of search() raise; all of them
\* derive from Exception
ExceptionClasses == {"TimeoutError", "ClientError", "ValueError", "AttributeError", "OSError"}

\* the value of a search() that returned
Returned(results, model_loaded) ==
    [raised |-> "none", results |-> results, embedding_model |-> model_loaded]

\* the state of a search() in which an exception is propagating
Raised(exc, model_loaded) ==
    [raised |-> exc, results |-> <<>>, embedding_model |-> model_loaded]

\* The body of search()'s outer try.  outcome.kind is what the request
\* did: "status" (an answer that is not 200), "timeout" (handled by the
\* inner except), "error" (the transport raised), "malformed" (the body is
\* no JSON), or "ok" with the raw results.  A raw result that is null
\* makes _parse_results raise, a url that is null makes _filter_urls
\* raise, and _deduplicate_results, when more than one result reaches it,
\* raises if the model cannot be constructed (load_ok is FALSE).
SearchBody(outcome, encode, model_loaded, load_ok, count) ==
    IF outcome.kind = "status" THEN Returned(<<>>, model_loaded)
    ELSE IF outcome.kind = "timeout" THEN Returned(<<>>, model_loaded)
    ELSE IF outcome.kind = "error" THEN Raised("ClientError", model_loaded)
    ELSE IF outcome.kind = "malformed" THEN Raised("ValueError", model_loaded)
    ELSE IF \E i \in 1..Len(outcome.results) : outcome.results[i] = RawNull
    THEN Raised("AttributeError", model_loaded)
    ELSE Then(ParseResults(outcome.results), LAMBDA normalized :
         IF \E i \in 1..Len(normalized) : normalized[i].url = PyNone
         THEN Raised("AttributeError", model_loaded)
         ELSE Then(FilterUrls(normalized), LAMBDA filtered :
              IF NeedsEmbeddingModel(filtered) /\ ~model_loaded /\ ~load_ok
              THEN Raised("OSError", model_loaded)
              ELSE Then(DeduplicateResults(filtered, encode, DefaultThreshold), LAMBDA unique :
                   Then(EnsureDiversity(unique, DefaultMaxPerDomain), LAMBDA diverse :
                        Returned(Prefix(diverse, count),
                                 model_loaded \/ NeedsEmbeddingModel(filtered))))))

\* a mutant of Search: the outer handler is `except aiohttp.ClientError`
Search_ExceptClientError(outcome, encode, model_loaded, load_ok, count) ==
    Then(SearchBody(outcome, encode, model_loaded, load_ok, count), LAMBDA body :
         IF body.raised = "ClientError" THEN Returned(<<>>, body.embedding_model) ELSE body)

\* search(): the body inside `try: ... except Exception as e: return []`.
\* The value: what was raised to the caller ("none" when search returned),
\* the list returned, and whether self._embedding_model is loaded
\* afterwards.
Search(outcome, encode, model_loaded, load_ok, count) ==
    Then(SearchBody(outcome, encode, model_loaded, load_ok, count), LAMBDA body :
         IF body.raised \in ExceptionClasses THEN Returned(<<>>, body.embedding_model) ELSE body)

\* Python: str(n) for n >= 0
RECURSIVE IntToStr(_)
IntToStr(n) ==
    IF n < 10 THEN <<Digits[n + 1]>>
    ELSE IntToStr(n \div 10) \o <<Digits[(n % 10) + 1]>>

\* (v or '').lower()
OrEmptyLower(v) == IF Truthy(v) THEN Lower(v) ELSE <<>>

\* result_text = f"{summary} {name} {url}"
ResultText(result) ==
    OrEmptyLower(result.summary) \o <<" ">> \o OrEmptyLower(result.name)
        \o <<" ">> \o OrEmptyLower(result.url)

\* a mutant of HasFutureDate: only the first of the two years is tested
HasFutureDate_FirstYearOnly(result_text) ==
    Contains(result_text, <<"2", "0", "2", "6">>)

\* '2026' in result_text or '2027' in result_text
HasFutureDate(result_text) ==
    Contains(result_text, <<"2", "0", "2", "6">>) \/ Contains(result_text, <<"2", "0", "2", "7">>)

FreshnessKeywords == { <<"t", "o", "d", "a", "y">>, <<"h", "o", "y">>, <<"l", "a", "t", "e", "s", "t">>, <<"c", "u", "r", "r", "e", "n", "t">> }

YearBonus == 10
DateBonus == 20
KeywordBonus == 15
ScoreBoost == 5

\* the score score_by_freshness gives a result it keeps
FreshnessScore(result, current_date, current_year) ==
    LET result_text == ResultText(result)
    IN  (IF Contains(result_text, IntToStr(current_year)) THEN YearBonus ELSE 0)
        + (IF Contains(result_text, Lower(current_date)) THEN DateBonus ELSE 0)
        + (IF \E word \in FreshnessKeywords : Contains(result_text, word)
           THEN KeywordBonus ELSE 0)
        + (IF TruthyNum(result.score) THEN result.score * ScoreBoost ELSE 0)

\* the scored results in the order of the input, future-dated ones skipped
RECURSIVE ScoreLoop(_, _, _)
ScoreLoop(results, current_date, current_year) ==
    IF Len(results) = 0 THEN <<>>
    ELSE LET result == results[1]
             rest == ScoreLoop(Tail(results), current_date, current_year)
         IN  IF HasFutureDate(ResultText(result)) THEN rest
             ELSE <<[score |-> FreshnessScore(result, current_date, current_year),
                     result |-> result]>> \o rest

\* insert x behind every element whose score is at least x's
RECURSIVE InsertByScore(_, _)
InsertByScore(sorted, x) ==
    IF Len(sorted) = 0 THEN <<x>>
    ELSE IF sorted[1].score >= x.score
         THEN <<sorted[1]>> \o InsertByScore(Tail(sorted), x)
         ELSE <<x>> \o sorted

\* scored_results.sort(key=lambda x: x[0], reverse=True): stable, descending
RECURSIVE SortByScore(_)
SortByScore(scored) ==
    IF Len(scored) = 0 THEN <<>>
    ELSE InsertByScore(SortByScore(SubSeq(scored, 1, Len(scored) - 1)),
                       scored[Len(scored)])

\* score_by_freshness(results, current_date, current_year)
ScoreByFreshness(results, current_date, current_year) ==
    Then(ScoreLoop(results, current_date, current_year), SortByScore)

----------------------------------------------------------------------------
(* The conversations and the LLM replies the planner is exercised on.      *)

MaxTurns == 6          \* longest conversation (one more than the window)
MaxReplyQueries == 4   \* longest query list in an LLM reply (one more than the cap)

WindowSize == 5            \* messages[-5:]
FastPathMaxQueries == 2    \* queries[:2]
DecisionMaxQueries == 3    \* queries[:3]

C_hi == <<"h", "i">>
C_ok == <<"o", "k">>
C_url_a == <<"s", "e", "e", " ", "h", "t", "t", "p", ":", "/", "/", "a">>
C_url_b == <<"h", "t", "t", "p", "s", ":", "/", "/", "b", " ", "?">>

\* One turn of a conversation: request.messages holds dicts with a role and
\* a content.
Turns ==
    { [role |-> "user", content |-> C_hi],
      [role |-> "user", content |-> C_url_a],
      [role |-> "assistant", content |-> C_ok],
      [role |-> "assistant", content |-> C_url_b] }

Conversations == UNION { [1..n -> Turns] : n \in 0..MaxTurns }

K_type == <<"t", "y", "p", "e">>
K_url == <<"u", "r", "l">>
K_search == <<"s", "e", "a", "r", "c", "h">>
K_queries == <<"q", "u", "e", "r", "i", "e", "s">>
K_other == <<"o", "t", "h", "e", "r">>
U_target == <<"h", "t", "t", "p", ":", "/", "/", "a">>

\* the i-th query text an LLM reply carries
QueryText(i) == <<"q", ToString(i)>>

\* the tokens of ["q1", ..., "qn"]
RECURSIVE StrItems(_)
StrItems(n) ==
    IF n = 0 THEN <<>>
    ELSE IF n = 1 THEN <<TStr(QueryText(1))>>
    ELSE StrItems(n - 1) \o <<Tok(","), TStr(QueryText(n))>>

ArrToks(items) == <<Tok("[")>> \o items \o <<Tok("]")>>
Member(key, valToks) == <<TStr(key), Tok(":")>> \o valToks
Obj1(m1) == <<Tok("{")>> \o m1 \o <<Tok("}")>>
Obj2(m1, m2) == <<Tok("{")>> \o m1 \o <<Tok(",")>> \o m2 \o <<Tok("}")>>

ArrayBodies ==
    { ArrToks(StrItems(n)) : n \in 0..MaxReplyQueries }
    \cup { ArrToks(<<Tok("num")>>),
           ArrToks(<<TStr(QueryText(1)), Tok(","), Tok("num")>>) }

TypeIs(v) == Member(K_type, <<TStr(v)>>)

ObjectBodies ==
    { Obj2(TypeIs(K_url), Member(K_url, <<u>>)) :
        u \in {TStr(U_target), TStr(<<>>), Tok("null")} }
    \cup { Obj2(TypeIs(K_search), Member(K_queries, q)) :
             q \in ArrayBodies \cup {<<TStr(QueryText(1))>>} }
    \cup { Obj1(TypeIs(K_url)), Obj1(TypeIs(K_search)), Obj1(TypeIs(K_other)) }

\* a well-formed value inside prose, and one followed by further brackets
WrappedBodies ==
    LET good == { ArrToks(StrItems(2)),
                  Obj2(TypeIs(K_search), Member(K_queries, ArrToks(StrItems(2)))),
                  Obj2(TypeIs(K_url), Member(K_url, <<TStr(U_target)>>)) }
    IN  { <<Tok("prose")>> \o b \o <<Tok("prose")>> : b \in good }
        \cup { b \o <<Tok("prose"), Tok("{"), Tok("}")>> : b \in good }
        \cup { b \o <<Tok("prose"), Tok("["), Tok("]")>> : b \in good }

MalformedBodies ==
    { <<Tok("prose")>>,
      <<>>,
      <<Tok("{"), TStr(K_type), Tok(":")>>,
      <<Tok("{"), TStr(K_type), Tok("}")>>,
      <<Tok("["), Tok(","), Tok("]")>> }

ReplyTexts == ArrayBodies \cup ObjectBodies \cup WrappedBodies \cup MalformedBodies

\* What `await client.chat(...)` followed by response["message"]["content"]
\* can do: deliver a reply text, or raise (connection error, timeout, a
\* reply without the expected keys).
LlmOutcomes ==
    { [kind |-> "text", text |-> t] : t \in ReplyTexts }
    \cup { [kind |-> "raise", text |-> <<>>] }

NoResponse == [kind |-> "none", text |-> <<>>]

----------------------------------------------------------------------------
(* generate_search_queries                                                 *)

SearchDecision(queries) == [type |-> "search", queries |-> queries, url |-> JNull]
UrlDecision(url) == [type |-> "url", queries |-> <<>>, url |-> url]
NoDecision == [type |-> "none", queries |-> <<>>, url |-> JNull]

\* a mutant of RecentMessages: the whole conversation, no window
RecentMessages_NoWindow(msgs) == msgs

\* recent_messages = messages[-5:] if len(messages) > 5 else messages
RecentMessages(msgs) ==
    IF Len(msgs) > WindowSize
    THEN SubSeq(msgs, Len(msgs) - WindowSize + 1, Len(msgs))
    ELSE msgs

\* has_urls = any(re.search(r'https?://[^\s]+', msg["content"]) for msg in recent_messages)
HasUrls(msgs) ==
    LET recent == RecentMessages(msgs)
    IN  \E i \in 1..Len(recent) : RegexHasUrl(recent[i].content)

\* the index of the last user turn of msgs, 0 when there is none
RECURSIVE LastUserIndex(_, _)
LastUserIndex(msgs, i) ==
    IF i < 1 THEN 0
    ELSE IF msgs[i].role = "user" THEN i
    ELSE LastUserIndex(msgs, i - 1)

\* last_user_content: the content of the last user turn of recent_messages,
\* "" when the window holds none
LastUserContent(msgs) ==
    LET recent == RecentMessages(msgs)
        i == LastUserIndex(recent, Len(recent))
    IN  IF i = 0 THEN <<>> ELSE recent[i].content

\* The fast path from the reply on (lines 105-117): the first [...] of the
\* reply when it parses to a non-empty list, cut to 2; otherwise, and on
\* any exception, the single query last_user_content.
FastPathResult(msgs, resp) ==
    LET fallback == SearchDecision(<<JStr(LastUserContent(msgs))>>)
        match == RegexBracketed(resp.text, "[", "]")
        queries == JsonLoads(match)
    IN  IF resp.kind = "raise" THEN fallback
        ELSE IF Len(match) = 0 THEN fallback
        ELSE IF ~queries.ok THEN fallback
        ELSE IF queries.val.k = "list" /\ Len(queries.val.items) > 0
             THEN SearchDecision(Prefix(queries.val.items, FastPathMaxQueries))
             ELSE fallback

\* last_user_msg = [m["content"] for m in messages if m.get("role") == "user"][-1]
\* over the WHOLE conversation; raises IndexError when there is no user turn.
LastUserMsg(msgs) ==
    LET i == LastUserIndex(msgs, Len(msgs))
    IN  IF i = 0 THEN [raised |-> TRUE, content |-> <<>>]
        ELSE [raised |-> FALSE, content |-> msgs[i].content]

\* The except handler of the decision path (lines 165-169): nothing catches
\* what it raises.
ExceptFallback(msgs) ==
    LET m == LastUserMsg(msgs)
    IN  IF m.raised THEN [type |-> "raise", queries |-> <<>>, url |-> JNull]
        ELSE SearchDecision(<<JStr(m.content)>>)

\* The fallback inside the try block (lines 160-163): what it raises is
\* caught by the except handler.
TryFallback(msgs) ==
    LET m == LastUserMsg(msgs)
    IN  IF m.raised THEN ExceptFallback(msgs)
        ELSE SearchDecision(<<JStr(m.content)>>)

\* all(isinstance(q, str) for q in queries)
AllStrings(items) == \A i \in 1..Len(items) : items[i].k = "str"

\* The decision path from the reply on (lines 142-169).
DecisionPathResult(msgs, resp) ==
    LET match == RegexBracketed(resp.text, "{", "}")
        loaded == JsonLoads(match)
        d == loaded.val
        type == DictGet(d, K_type)
        url == DictGet(d, K_url)
        queries == DictGet(d, K_queries)
    IN  IF resp.kind = "raise" THEN ExceptFallback(msgs)
        ELSE IF Len(match) = 0 THEN TryFallback(msgs)
        ELSE IF ~loaded.ok THEN ExceptFallback(msgs)
        ELSE IF type.present /\ type.val = JStr(K_url) /\ url.present
             THEN UrlDecision(url.val)
        ELSE IF type.present /\ type.val = JStr(K_search) /\ queries.present
                /\ queries.val.k = "list" /\ AllStrings(queries.val.items)
             THEN SearchDecision(Prefix(queries.val.items, DecisionMaxQueries))
        ELSE TryFallback(msgs)

\* Entry (lines 79-103 and 119-140): the window, the URL check, and the one
\* LLM call of the path taken.
PlannerCall ==
    /\ plannerPc = "start"
    /\ IF HasUrls(messages)
       THEN /\ llmCalls' = Append(llmCalls, "decision")
            /\ plannerPc' = "decision_await"
       ELSE /\ llmCalls' = Append(llmCalls, "query_generation")
            /\ plannerPc' = "fast_await"
    /\ UNCHANGED <<messages, response, decision>>
    /\ UNCHANGED <<normalizeVars, filterVars, diversityVars, chatVars, freshnessVars, dedupVars, searchVars, procVars, titleVars, healthVars, visionVars, modelsVars>>

PlannerFinish(resp, result) ==
    /\ response' = resp
    /\ decision' = result
    /\ plannerPc' = IF result.type = "raise" THEN "raised" ELSE "returned"
    /\ UNCHANGED <<messages, llmCalls>>
    /\ UNCHANGED <<normalizeVars, filterVars, diversityVars, chatVars, freshnessVars, dedupVars, searchVars, procVars, titleVars, healthVars, visionVars, modelsVars>>

\* The query-generation call completes and the fast path returns.
FastPathReply ==
    /\ plannerPc = "fast_await"
    /\ \E resp \in LlmOutcomes : PlannerFinish(resp, FastPathResult(messages, resp))

\* The decision call completes and the decision path returns or raises.
DecisionReply ==
    /\ plannerPc = "decision_await"
    /\ \E resp \in LlmOutcomes : PlannerFinish(resp, DecisionPathResult(messages, resp))

PlannerInit ==
    /\ messages \in Conversations
    /\ plannerPc = "start"
    /\ llmCalls = <<>>
    /\ response = NoResponse
    /\ decision = NoDecision

PlannerNext == PlannerCall \/ FastPathReply \/ DecisionReply

InitPlanner == PlannerInit /\ NormalizeIdle /\ FilterIdle /\ DiversityIdle /\ ChatIdle /\ FreshnessIdle /\ DedupIdle /\ SearchIdle /\ ProcessIdle /\ TitleIdle /\ HealthIdle /\ VisionIdle /\ ModelsIdle

SpecPlanner == InitPlanner /\ [][PlannerNext]_vars

----------------------------------------------------------------------------
(* _normalize_url applied to one url (SpecNormalize).                      *)

MaxParams == 2    \* most fields in a query string

\* the fields a query string is made of
QueryFields ==
    { <<"a", "=", "1">>, <<"a", "=", "2">>, <<"b", "=">>, <<"c">>, <<"u", "t", "m", "_", "s", "o", "u", "r", "c", "e", "=", "x">>, <<"f", "b", "c", "l", "i", "d", "=", "y">>, <<"a", "m", "p", "=", "1">> }

\* the query strings of at most MaxParams fields, each with its leading '?'
QueryStrings ==
    {<<>>} \cup
    UNION { { <<"?">> \o Join(fs, <<"&">>) : fs \in [1..n -> QueryFields] } : n \in 1..MaxParams }

NormalizePaths == { <<>>, <<"/">>, <<"/", "p">>, <<"/", "p", "/">> }
Fragments == { <<>>, <<"#", "f">> }

NormalizeInputs ==
    { <<"h", "t", "t", "p", "s", ":", "/", "/", "e", ".", "c">> \o p \o q \o f :
        p \in NormalizePaths, q \in QueryStrings, f \in Fragments }

NormalizeInit ==
    /\ normUrl \in NormalizeInputs
    /\ normOut = <<>>
    /\ normPc = "start"

\* clean_url = self._normalize_url(url)
NormalizeCall ==
    /\ normPc = "start"
    /\ normOut' = NormalizeUrl(normUrl)
    /\ normPc' = "done"
    /\ UNCHANGED normUrl
    /\ UNCHANGED <<plannerVars, filterVars, diversityVars, chatVars, freshnessVars, dedupVars, searchVars, procVars, titleVars, healthVars, visionVars, modelsVars>>

NormalizeNext == NormalizeCall

InitNormalize == NormalizeInit /\ PlannerIdle /\ FilterIdle /\ DiversityIdle /\ ChatIdle /\ FreshnessIdle /\ DedupIdle /\ SearchIdle /\ ProcessIdle /\ TitleIdle /\ HealthIdle /\ VisionIdle /\ ModelsIdle

SpecNormalize == InitNormalize /\ [][NormalizeNext]_vars

----------------------------------------------------------------------------
(* _filter_urls applied to one result list (SpecFilter).                   *)

MaxFilterResults == 2    \* longest result list passed to _filter_urls

FilterPaths ==
    { <<"/", "p">>, <<"/", "a", "m", "p", "/", "p">>, <<"/", "f", ".", "x", "m", "l">>, <<"/", "f", ".", "x", "m", "l", "/">>, <<"/", "F", ".", "R", "S", "S">>, <<"/", "f", "e", "e", "d", "/", "x">>, <<"/", "g", "o", "t", "o">> }

FilterQueries == { <<>>, <<"?", "u", "t", "m", "_", "s", "o", "u", "r", "c", "e", "=", "x">>, <<"?", "a", "m", "p", "=", "1">>, <<"?", "u", "t", "m", "_", "s", "o", "u", "r", "c", "e", "=", "x", "&", "a", "m", "p", "=", "1">> }

FilterUrlInputs ==
    { <<"h", "t", "t", "p", "s", ":", "/", "/", "e", ".", "c">> \o p \o q \o f :
        p \in FilterPaths, q \in FilterQueries, f \in Fragments }

FilterResultLists ==
    UNION { [1..n -> { MkResult(<<"t">>, u, <<"s">>, 0) : u \in FilterUrlInputs }] :
              n \in 0..MaxFilterResults }

FilterInit ==
    /\ filterIn \in FilterResultLists
    /\ filterOut = <<>>
    /\ filterPc = "start"

\* filtered_results = self._filter_urls(normalized_results)
FilterCall ==
    /\ filterPc = "start"
    /\ filterOut' = FilterUrls(filterIn)
    /\ filterPc' = "done"
    /\ UNCHANGED filterIn
    /\ UNCHANGED <<plannerVars, normalizeVars, diversityVars, chatVars, freshnessVars, dedupVars, searchVars, procVars, titleVars, healthVars, visionVars, modelsVars>>

FilterNext == FilterCall

InitFilter == FilterInit /\ PlannerIdle /\ NormalizeIdle /\ DiversityIdle /\ ChatIdle /\ FreshnessIdle /\ DedupIdle /\ SearchIdle /\ ProcessIdle /\ TitleIdle /\ HealthIdle /\ VisionIdle /\ ModelsIdle

SpecFilter == InitFilter /\ [][FilterNext]_vars

----------------------------------------------------------------------------
(* _ensure_diversity applied to one result list (SpecDiversity).           *)

MaxDiversityResults == 4    \* longest result list passed to _ensure_diversity
MaxDomainCap == 2           \* largest max_per_domain tried

DiversityUrlInputs ==
    { <<"h", "t", "t", "p", "s", ":", "/", "/", "e", ".", "c", "/", "a">>, <<"h", "t", "t", "p", "s", ":", "/", "/", "e", ".", "c", "/", "b">>, <<"h", "t", "t", "p", "s", ":", "/", "/", "w", "w", "w", ".", "e", ".", "c", "/", "c">>, <<"h", "t", "t", "p", "s", ":", "/", "/", "f", ".", "c", "/", "d">>,
      <<"h", "t", "t", "p", "s", ":", "/", "/", "a", ".", "w", "w", "w", ".", "e", ".", "c">>, <<"h", "t", "t", "p", "s", ":", "/", "/", "a", ".", "e", ".", "c">>, <<"h", "t", "t", "p", ":", "/", "/", "[", "x">> }

DiversityResultLists ==
    UNION { [1..n -> { MkResult(<<"t">>, u, <<"s">>, 0) : u \in DiversityUrlInputs }] :
              n \in 0..MaxDiversityResults }

DiversityInit ==
    /\ divIn \in DiversityResultLists
    /\ divMax \in 0..MaxDomainCap
    /\ divOut = <<>>
    /\ divPc = "start"

\* diverse_results = self._ensure_diversity(unique_results, max_per_domain)
DiversityCall ==
    /\ divPc = "start"
    /\ divOut' = EnsureDiversity(divIn, divMax)
    /\ divPc' = "done"
    /\ UNCHANGED <<divIn, divMax>>
    /\ UNCHANGED <<plannerVars, normalizeVars, filterVars, chatVars, freshnessVars, dedupVars, searchVars, procVars, titleVars, healthVars, visionVars, modelsVars>>

DiversityNext == DiversityCall

InitDiversity == DiversityInit /\ PlannerIdle /\ NormalizeIdle /\ FilterIdle /\ ChatIdle /\ FreshnessIdle /\ DedupIdle /\ SearchIdle /\ ProcessIdle /\ TitleIdle /\ HealthIdle /\ VisionIdle /\ ModelsIdle

SpecDiversity == InitDiversity /\ [][DiversityNext]_vars

----------------------------------------------------------------------------
(* chat_stream: the web-search stage of one chat turn (SpecChat).          *)

MaxRawResults == 2     \* longest raw result list one SearXNG answer carries

SearchCount == 15      \* count=15 of each search() call
TopResults == 8        \* scored_results[:8]

\* request.messages of the turn; request.messages[-1] needs one message
ChatConversations ==
    { <<[role |-> "user", content |-> C_hi]>>,
      <<[role |-> "user", content |-> C_url_a]>>,
      <<[role |-> "user", content |-> C_hi], [role |-> "assistant", content |-> C_ok]>>,
      <<[role |-> "assistant", content |-> C_url_b], [role |-> "user", content |-> C_hi]>> }

\* the planner's LLM call during a chat turn
ChatLlmOutcomes ==
    { [kind |-> "text", text |-> t] :
        t \in { ArrToks(StrItems(2)),
                ArrToks(StrItems(3)),
                ArrToks(StrItems(0)),
                Obj2(TypeIs(K_search), Member(K_queries, ArrToks(StrItems(3)))),
                Obj2(TypeIs(K_search), Member(K_queries, ArrToks(StrItems(0)))),
                Obj2(TypeIs(K_url), Member(K_url, <<TStr(U_target)>>)),
                Obj2(TypeIs(K_url), Member(K_url, <<TStr(<<>>)>>)) } }
    \cup { [kind |-> "raise", text |-> <<>>] }

\* the raw results a SearXNG answer is made of
RawUniverse ==
    { [title |-> <<"A", " ", "-", " ", "C", "N", "N">>, content |-> <<"x">>,
       url |-> <<"h", "t", "t", "p", "s", ":", "/", "/", "e", ".", "c", "/", "1", "?", "u", "t", "m", "_", "s", "o", "u", "r", "c", "e", "=", "x">>,
       score |-> 1],
      [title |-> <<"a">>, content |-> <<"x">>,
       url |-> <<"h", "t", "t", "p", "s", ":", "/", "/", "w", "w", "w", ".", "e", ".", "c", "/", "2">>,
       score |-> 0],
      [title |-> PyNone, content |-> <<"y", " ", "2", "0", "2", "5">>,
       url |-> <<"h", "t", "t", "p", "s", ":", "/", "/", "e", ".", "c", "/", "3">>],
      [title |-> <<"a">>, content |-> <<"x">>, score |-> 2] }

RawResultLists == UNION { [1..n -> RawUniverse] : n \in 0..MaxRawResults }

\* what the GET /search of one search() call does
BackendOutcomes ==
    { [kind |-> "ok", results |-> r] : r \in RawResultLists }
    \cup { [kind |-> k, results |-> <<>>] : k \in {"status", "timeout", "error"} }

\* the texts the embedding model is asked to encode
ComparisonTexts == { ComparisonText(ParseResult(r)) : r \in RawUniverse }

\* the embeddings: two directions, similar to themselves only
EmbeddingVectors == { <<1, 0>>, <<0, 1>> }

\* SentenceTransformer.encode: one vector per text
Encoders == [ComparisonTexts -> EmbeddingVectors]

\* datetime.now(): strftime("%B %d, %Y") and .year
Clocks ==
    { [date |-> <<"N", "o", "v", "e", "m", "b", "e", "r", " ", "2", "4", ",", " ", "2", "0", "2", "5">>, year |-> 2025],
      [date |-> <<"J", "a", "n", "u", "a", "r", "y", " ", "0", "5", ",", " ", "2", "0", "2", "6">>, year |-> 2026] }

\* the clock of the chat turns: the scoring is run on both clocks on its own
\* inputs, the turns on the first
ChatClocks == { c \in Clocks : c.year = 2025 }

S_unavailable == <<"W", "e", "b", " ", "s", "e", "a", "r", "c", "h", " ", "i", "s", " ", "c", "u", "r", "r", "e", "n", "t", "l", "y", " ", "u", "n", "a", "v", "a", "i", "l", "a", "b", "l", "e", ".", " ", "S", "e", "a", "r", "X", "N", "G", " ", "s", "e", "r", "v", "i", "c", "e", " ", "i", "s", " ", "n", "o", "t", " ", "r", "u", "n", "n", "i", "n", "g", ".">>
S_error_prefix == <<"W", "e", "b", " ", "s", "e", "a", "r", "c", "h", " ", "e", "n", "c", "o", "u", "n", "t", "e", "r", "e", "d", " ", "a", "n", " ", "e", "r", "r", "o", "r", ":", " ">>
S_index_error == <<"l", "i", "s", "t", " ", "i", "n", "d", "e", "x", " ", "o", "u", "t", " ", "o", "f", " ", "r", "a", "n", "g", "e">>
S_type_error == <<"'", "N", "o", "n", "e", "T", "y", "p", "e", "'", " ", "o", "b", "j", "e", "c", "t", " ", "i", "s", " ", "n", "o", "t", " ", "s", "u", "b", "s", "c", "r", "i", "p", "t", "a", "b", "l", "e">>
S_page_text == <<"p", "a", "g", "e", " ", "t", "e", "x", "t">>
S_read_error == <<"E", "r", "r", "o", "r", " ", "r", "e", "a", "d", "i", "n", "g", " ", "U", "R", "L">>

\* What constructing the embedding model can do during one search() call:
\* succeed or raise; it is constructed only when no model is loaded and more
\* than one result reaches the deduplicator.
LoadOutcomes(outcome, model_loaded) ==
    IF outcome.kind = "ok" /\ Len(outcome.results) > 1 /\ ~model_loaded
    THEN BOOLEAN ELSE {TRUE}

\* a mutant of MergeByUrl: `if url not in seen_urls`, without the test of url
RECURSIVE MergeByUrl_AnyUrl(_, _, _)
MergeByUrl_AnyUrl(results, merged, seen) ==
    IF Len(results) = 0 THEN [all_results |-> merged, seen_urls |-> seen]
    ELSE LET result == results[1]
         IN  IF result.url \notin seen
             THEN MergeByUrl_AnyUrl(Tail(results), Append(merged, result),
                                    seen \cup {result.url})
             ELSE MergeByUrl_AnyUrl(Tail(results), merged, seen)

\* for result in query_results: url = result.get('url');
\*     if url and url not in seen_urls: seen_urls.add(url); all_results.append(result)
RECURSIVE MergeByUrl(_, _, _)
MergeByUrl(results, merged, seen) ==
    IF Len(results) = 0 THEN [all_results |-> merged, seen_urls |-> seen]
    ELSE LET result == results[1]
         IN  IF Truthy(result.url) /\ result.url \notin seen
             THEN MergeByUrl(Tail(results), Append(merged, result),
                             seen \cup {result.url})
             ELSE MergeByUrl(Tail(results), merged, seen)

\* web_results = [r for _, r in scored_results[:8]]
TopScored(scored_results) ==
    LET top == Prefix(scored_results, TopResults)
    IN  [i \in 1..Len(top) |-> top[i].result]

\* web_results = [], url_content = None, searxng_error_message = None, and
\* the test `request.use_web_search and last_message["role"] == "user"`
ChatStart ==
    /\ chatPc = "start"
    /\ chatPc' = IF use_web_search /\ chatMessages[Len(chatMessages)].role = "user"
                 THEN "plan" ELSE "prompt"
    /\ UNCHANGED <<chatMessages, use_web_search, clock, encoder, chatDecision,
                   embedding_model, queryIdx, all_results, seen_urls, web_results,
                   url_content, searxng_error_message, promptSection, query_results, turnRequests>>
    /\ UNCHANGED <<plannerVars, normalizeVars, filterVars, diversityVars, freshnessVars, dedupVars, searchVars, procVars, titleVars, healthVars, visionVars, modelsVars>>

\* decision = await generate_search_queries(request.messages, request.model)
\* and the branch on decision["type"] up to the first await of the branch.
\* An exception (the planner raising, optimized_queries[0] of an empty list)
\* is caught at line 286.
ChatPlan ==
    /\ chatPc = "plan"
    /\ \E resp \in ChatLlmOutcomes :
       \E d \in { IF HasUrls(chatMessages)
                  THEN DecisionPathResult(chatMessages, resp)
                  ELSE FastPathResult(chatMessages, resp) } :
         LET raises == \/ d.type = "raise"
                       \/ d.type = "search" /\ Len(d.queries) = 0
         IN  /\ chatDecision' = d
             /\ searxng_error_message' =
                    IF raises THEN S_error_prefix \o S_index_error
                    ELSE searxng_error_message
             /\ chatPc' = IF raises THEN "prompt"
                          ELSE IF d.type = "url" THEN "read_url"
                          ELSE "health"
    /\ UNCHANGED <<chatMessages, use_web_search, clock, encoder,
                   embedding_model, queryIdx, all_results, seen_urls, web_results,
                   url_content, promptSection, query_results, turnRequests>>
    /\ UNCHANGED <<plannerVars, normalizeVars, filterVars, diversityVars, freshnessVars, dedupVars, searchVars, procVars, titleVars, healthVars, visionVars, modelsVars>>

\* a mutant of ChatReadUrl: after the read the turn goes on with the
\* search branch
ChatReadUrl_FallThrough ==
    /\ chatPc = "read_url"
    /\ \E content \in {S_page_text, <<>>, S_read_error} :
         /\ (chatDecision.url.k # "str" \/ ~RegexHasUrl(chatDecision.url.s))
                => content = S_read_error
         /\ url_content' = content
    /\ chatPc' = "health"
    /\ UNCHANGED <<chatMessages, use_web_search, clock, encoder, chatDecision,
                   embedding_model, queryIdx, all_results, seen_urls, web_results,
                   searxng_error_message, promptSection, query_results>>
    /\ turnRequests' = Append(turnRequests, "read_url")
    /\ UNCHANGED <<plannerVars, normalizeVars, filterVars, diversityVars, freshnessVars, dedupVars, searchVars, procVars, titleVars, healthVars, visionVars, modelsVars>>

\* url_content = await read_url_content(target_url): the page text (it may
\* be empty) or an error message; read_url_content catches every exception.
\* A url without a scheme makes requests.get raise, so it gives the message.
ChatReadUrl ==
    /\ chatPc = "read_url"
    /\ \E content \in {S_page_text, <<>>, S_read_error} :
         /\ (chatDecision.url.k # "str" \/ ~RegexHasUrl(chatDecision.url.s))
                => content = S_read_error
         /\ url_content' = content
    /\ chatPc' = "prompt"
    /\ UNCHANGED <<chatMessages, use_web_search, clock, encoder, chatDecision,
                   embedding_model, queryIdx, all_results, seen_urls, web_results,
                   searxng_error_message, promptSection, query_results>>
    /\ turnRequests' = Append(turnRequests, "read_url")
    /\ UNCHANGED <<plannerVars, normalizeVars, filterVars, diversityVars, freshnessVars, dedupVars, searchVars, procVars, titleVars, healthVars, visionVars, modelsVars>>

\* what a GET of health_check does: it completes with a status, or raises
\* (a timeout, a refused connection, a cancellation of the task)
ProbeOutcomes ==
    { [kind |-> "status", status |-> n, exc |-> "none"] : n \in {200, 204, 404, 500, 503} }
    \cup { [kind |-> "raise", status |-> 0, exc |-> x] :
              x \in {"TimeoutError", "ClientError", "OSError", "CancelledError"} }

\* a return of health_check, with the requests it has issued
HealthReturn(value, requests) == [raised |-> "none", value |-> value, requests |-> requests]

\* a mutant of HealthCheck: the fallback search is issued whenever the
\* liveness probe is not a 200, also when it completed
HealthCheck_FallbackOnAnyFailure(healthz, search_probe) ==
    IF healthz.kind = "status" /\ healthz.status = 200
    THEN HealthReturn(TRUE, <<"/healthz">>)
    ELSE IF search_probe.kind = "status"
    THEN HealthReturn(search_probe.status = 200, <<"/healthz", "/search">>)
    ELSE HealthReturn(FALSE, <<"/healthz", "/search">>)

\* health_check(): GET /healthz and `return response.status == 200`; if
\* anything raises (bare except), GET /search?q=test and the same return;
\* if that raises too (bare except), False
HealthCheck(healthz, search_probe) ==
    IF healthz.kind = "status"
    THEN HealthReturn(healthz.status = 200, <<"/healthz">>)
    ELSE IF search_probe.kind = "status"
    THEN HealthReturn(search_probe.status = 200, <<"/healthz", "/search">>)
    ELSE HealthReturn(FALSE, <<"/healthz", "/search">>)

\* a mutant of ChatHealthCheck: the notice is recorded and the searches run
\* all the same
ChatHealthCheck_SearchAnyway ==
    /\ chatPc = "health"
    /\ \E healthz \in ProbeOutcomes, search_probe \in ProbeOutcomes :
         IF HealthCheck(healthz, search_probe).value
         THEN UNCHANGED searxng_error_message
         ELSE searxng_error_message' = S_unavailable
    /\ chatPc' = "search"
    /\ UNCHANGED <<chatMessages, use_web_search, clock, encoder, chatDecision,
                   embedding_model, queryIdx, all_results, seen_urls, web_results,
                   url_content, promptSection, query_results>>
    /\ turnRequests' = Append(turnRequests, "health_check")
    /\ UNCHANGED <<plannerVars, normalizeVars, filterVars, diversityVars, freshnessVars, dedupVars, searchVars, procVars, titleVars, healthVars, visionVars, modelsVars>>

\* searxng = SearXNGService(...); if not await searxng.health_check(): ...
\* else: all_results = []; seen_urls = set()
ChatHealthCheck ==
    /\ chatPc = "health"
    /\ \E healthz \in ProbeOutcomes, search_probe \in ProbeOutcomes :
         IF HealthCheck(healthz, search_probe).value
         THEN /\ chatPc' = "search"
              /\ UNCHANGED searxng_error_message
         ELSE /\ chatPc' = "prompt"
              /\ searxng_error_message' = S_unavailable
    /\ UNCHANGED <<chatMessages, use_web_search, clock, encoder, chatDecision,
                   embedding_model, queryIdx, all_results, seen_urls, web_results,
                   url_content, promptSection, query_results>>
    /\ turnRequests' = Append(turnRequests, "health_check")
    /\ UNCHANGED <<plannerVars, normalizeVars, filterVars, diversityVars, freshnessVars, dedupVars, searchVars, procVars, titleVars, healthVars, visionVars, modelsVars>>

\* One iteration of `for query_idx, search_query in enumerate(optimized_queries, 1)`:
\* the search() call and the merge of its results by url.
ChatSearchQuery ==
    /\ chatPc = "search"
    /\ queryIdx <= Len(chatDecision.queries)
    /\ \E outcome \in BackendOutcomes :
       \E load_ok \in LoadOutcomes(outcome, embedding_model) :
       \E searched \in {Search(outcome, encoder, embedding_model, load_ok, SearchCount)} :
       \E merged \in {MergeByUrl(searched.results, all_results, seen_urls)} :
         /\ all_results' = merged.all_results
         /\ seen_urls' = merged.seen_urls
         /\ embedding_model' = searched.embedding_model
         /\ query_results' = searched.results
    /\ queryIdx' = queryIdx + 1
    /\ chatPc' = IF queryIdx = Len(chatDecision.queries) THEN "score" ELSE "search"
    /\ UNCHANGED <<chatMessages, use_web_search, clock, encoder, chatDecision,
                   web_results, url_content, searxng_error_message, promptSection>>
    /\ turnRequests' = Append(turnRequests, "search")
    /\ UNCHANGED <<plannerVars, normalizeVars, filterVars, diversityVars, freshnessVars, dedupVars, searchVars, procVars, titleVars, healthVars, visionVars, modelsVars>>

\* for idx, (score, result) in enumerate(scored_results[:8]):
\*     print(f"... {result.get('name', 'No title')[:60]}")
\* raises TypeError at the first result whose name is present and None
LogTopRaises(top) == \E i \in 1..Len(top) : top[i].name = PyNone

\* if all_results: scored_results = searxng.score_by_freshness(...);
\*                 web_results = [r for _, r in scored_results[:8]]
\*                 and the log of the selected results;
\* an exception of the log is caught at line 286, after the assignment
ChatScore ==
    /\ chatPc = "score"
    /\ \E top \in { IF Len(all_results) > 0
                    THEN Then(ScoreByFreshness(all_results, clock.date, clock.year), TopScored)
                    ELSE web_results } :
         /\ web_results' = top
         /\ searxng_error_message' =
                IF Len(all_results) > 0 /\ LogTopRaises(top)
                THEN S_error_prefix \o S_type_error
                ELSE searxng_error_message
    /\ chatPc' = "prompt"
    /\ UNCHANGED <<chatMessages, use_web_search, clock, encoder, chatDecision,
                   embedding_model, queryIdx, all_results, seen_urls,
                   url_content, promptSection, query_results, turnRequests>>
    /\ UNCHANGED <<plannerVars, normalizeVars, filterVars, diversityVars, freshnessVars, dedupVars, searchVars, procVars, titleVars, healthVars, visionVars, modelsVars>>

\* "Build context for LLM": the section appended to the system prompt
ChatBuildPrompt ==
    /\ chatPc = "prompt"
    /\ promptSection' =
           IF Truthy(url_content) THEN "url_content"
           ELSE IF Len(web_results) > 0 THEN "web_results"
           ELSE IF use_web_search /\ Truthy(searxng_error_message) THEN "unavailable"
           ELSE IF use_web_search THEN "no_results"
           ELSE "none"
    /\ chatPc' = "generate"
    /\ UNCHANGED <<chatMessages, use_web_search, clock, encoder, chatDecision,
                   embedding_model, queryIdx, all_results, seen_urls, web_results,
                   url_content, searxng_error_message, query_results, turnRequests>>
    /\ UNCHANGED <<plannerVars, normalizeVars, filterVars, diversityVars, freshnessVars, dedupVars, searchVars, procVars, titleVars, healthVars, visionVars, modelsVars>>

\* async for chunk in await client.chat(model, messages=ollama_messages,
\* stream=True): the response is streamed to the client, or the call raises
\* and {"error": ...} is streamed instead.
ChatGenerate ==
    /\ chatPc = "generate"
    /\ \E streamed \in BOOLEAN :
         chatPc' = IF streamed THEN "done" ELSE "error"
    /\ UNCHANGED <<chatMessages, use_web_search, clock, encoder, chatDecision,
                   embedding_model, queryIdx, all_results, seen_urls, web_results,
                   url_content, searxng_error_message, promptSection, query_results, turnRequests>>
    /\ UNCHANGED <<plannerVars, normalizeVars, filterVars, diversityVars, freshnessVars, dedupVars, searchVars, procVars, titleVars, healthVars, visionVars, modelsVars>>

ChatInit ==
    /\ chatMessages \in ChatConversations
    /\ use_web_search \in BOOLEAN
    /\ clock \in ChatClocks
    /\ encoder \in Encoders
    /\ chatPc = "start"
    /\ chatDecision = NoDecision
    /\ embedding_model = FALSE
    /\ query_results = <<>>
    /\ turnRequests = <<>>
    /\ queryIdx = 1
    /\ all_results = <<>>
    /\ seen_urls = {}
    /\ web_results = <<>>
    /\ url_content = PyNone
    /\ searxng_error_message = PyNone
    /\ promptSection = "none"

ChatNext ==
    \/ ChatStart
    \/ ChatPlan
    \/ ChatReadUrl
    \/ ChatHealthCheck
    \/ ChatSearchQuery
    \/ ChatScore
    \/ ChatBuildPrompt
    \/ ChatGenerate

InitChat == ChatInit /\ PlannerIdle /\ NormalizeIdle /\ FilterIdle /\ DiversityIdle /\ FreshnessIdle /\ DedupIdle /\ SearchIdle /\ ProcessIdle /\ TitleIdle /\ HealthIdle /\ VisionIdle /\ ModelsIdle

SpecChat == InitChat /\ [][ChatNext]_vars

----------------------------------------------------------------------------
(* score_by_freshness applied to one merged result list, followed by the   *)
(* top-8 cut of chat_stream (SpecFreshness).                               *)

MaxFreshResults == 2   \* most hand-picked results at the head of a list
MaxFillers == 9        \* most plain results behind them (one more than the cut)

U_e1 == <<"h", "t", "t", "p", "s", ":", "/", "/", "e", ".", "c", "/", "1">>

\* results with and without a future year in each text field, with the
\* current date, with a keyword, with a name of None
FreshnessUniverse ==
    { MkResult(<<"N", "e", "w", "s">>, U_e1, <<"s">>, 0),
      MkResult(<<"N", "e", "w", "s">>, U_e1, <<"d", "u", "e", " ", "2", "0", "2", "6">>, 9),
      MkResult(<<"P", "l", "a", "n", " ", "2", "0", "2", "7">>, U_e1, <<"s">>, 0),
      MkResult(<<"N", "e", "w", "s">>, <<"h", "t", "t", "p", "s", ":", "/", "/", "e", ".", "c", "/", "2", "0", "2", "6", "/", "a">>, <<"L", "a", "t", "e", "s", "t", " ", "T", "O", "D", "A", "Y">>, 1),
      MkResult(PyNone, U_e1, <<"o", "n", " ", "N", "o", "v", "e", "m", "b", "e", "r", " ", "2", "4", ",", " ", "2", "0", "2", "5">>, 0),
      MkResult(<<"2", "0", "2", " ", "6">>, U_e1, <<"h", "o", "y", " ", "2", "0", "2", "5", " ", "2", "0", "2", "8">>, 2) }

\* the i-th plain result
FillerResult(i) == MkResult(<<"n">>, <<"h", "t", "t", "p", "s", ":", "/", "/", "f", ".", "c", "/">> \o IntToStr(i), <<"s">>, i % 3)

FreshnessInputs ==
    { head \o [i \in 1..m |-> FillerResult(i)] :
        head \in UNION { [1..n -> FreshnessUniverse] : n \in 0..MaxFreshResults },
        m \in 0..MaxFillers }

FreshnessInit ==
    /\ freshIn \in FreshnessInputs
    /\ freshClock \in Clocks
    /\ freshOut = <<>>
    /\ freshTop = <<>>
    /\ freshPc = "start"

\* scored_results = searxng.score_by_freshness(all_results, current_date, current_year)
\* web_results = [r for _, r in scored_results[:8]]
FreshnessCall ==
    /\ freshPc = "start"
    /\ \E scored_results \in {ScoreByFreshness(freshIn, freshClock.date, freshClock.year)} :
         /\ freshOut' = scored_results
         /\ freshTop' = TopScored(scored_results)
    /\ freshPc' = "done"
    /\ UNCHANGED <<freshIn, freshClock>>
    /\ UNCHANGED <<plannerVars, normalizeVars, filterVars, diversityVars, chatVars, dedupVars, searchVars, procVars, titleVars, healthVars, visionVars, modelsVars>>

FreshnessNext == FreshnessCall

InitFreshness == FreshnessInit /\ PlannerIdle /\ NormalizeIdle /\ FilterIdle /\ DiversityIdle /\ ChatIdle /\ DedupIdle /\ SearchIdle /\ ProcessIdle /\ TitleIdle /\ HealthIdle /\ VisionIdle /\ ModelsIdle

SpecFreshness == InitFreshness /\ [][FreshnessNext]_vars

-----------------------------------------------------------------------------
(* _deduplicate_results called on a result list and then on the list it    *)
(* returned, with the same embedding model and the same threshold.         *)

MaxDedupResults == 3   \* longest result list passed to _deduplicate_results

\* results that differ in their title, hence in their comparison text
DedupUniverse ==
    { MkResult(<<"a">>, <<"u", "1">>, <<"s">>, 0),
      MkResult(<<"b">>, <<"u", "2">>, <<"s">>, 0),
      MkResult(<<"c">>, <<"u", "3">>, <<"s">>, 0) }

DedupInputs == UNION { [1..n -> DedupUniverse] : n \in 0..MaxDedupResults }

\* embeddings: (3,2) and (3,-2) are both close to (1,0) and far from each
\* other; (0,0) has norm zero
DedupVectors == { <<1, 0>>, <<3, 2>>, <<3, -2>>, <<0, 0>> }

\* SentenceTransformer.encode: deterministic, one vector per text
DedupEncoders == [ { ComparisonText(r) : r \in DedupUniverse } -> DedupVectors ]

\* threshold values: the default 0.75, 0.0, 1.0 and -0.5
DedupThresholds ==
    { DefaultThreshold, [num |-> 0, den |-> 1], [num |-> 1, den |-> 1], [num |-> -1, den |-> 2] }

DedupInit ==
    /\ dedupIn \in DedupInputs
    /\ dedupEncoder \in DedupEncoders
    /\ dedupThreshold \in DedupThresholds
    /\ dedupOut = <<>>
    /\ dedupAgain = <<>>
    /\ dedupPc = "start"

\* unique = self._deduplicate_results(results, threshold)
DedupCall ==
    /\ dedupPc = "start"
    /\ dedupOut' = DeduplicateResults(dedupIn, dedupEncoder, dedupThreshold)
    /\ dedupPc' = "once"
    /\ UNCHANGED <<dedupIn, dedupEncoder, dedupThreshold, dedupAgain>>
    /\ UNCHANGED <<plannerVars, normalizeVars, filterVars, diversityVars, chatVars, freshnessVars, searchVars, procVars, titleVars, healthVars, visionVars, modelsVars>>

\* self._deduplicate_results(unique, threshold)
DedupCallAgain ==
    /\ dedupPc = "once"
    /\ dedupAgain' = DeduplicateResults(dedupOut, dedupEncoder, dedupThreshold)
    /\ dedupPc' = "twice"
    /\ UNCHANGED <<dedupIn, dedupEncoder, dedupThreshold, dedupOut>>
    /\ UNCHANGED <<plannerVars, normalizeVars, filterVars, diversityVars, chatVars, freshnessVars, searchVars, procVars, titleVars, healthVars, visionVars, modelsVars>>

DedupNext == DedupCall \/ DedupCallAgain

InitDedup == DedupInit /\ PlannerIdle /\ NormalizeIdle /\ FilterIdle /\ DiversityIdle /\ ChatIdle /\ FreshnessIdle /\ SearchIdle /\ ProcessIdle /\ TitleIdle /\ HealthIdle /\ VisionIdle /\ ModelsIdle

SpecDedup == InitDedup /\ [][DedupNext]_vars

-----------------------------------------------------------------------------
(* One search(query, count) call: what the backend answers, whether the    *)
(* embedding model is loaded or can be loaded, and the count asked for.    *)

MaxSearchResults == 2   \* most raw results in one answer
MaxCount == 2           \* largest count argument

\* raw results: complete ones, a null title, a null url, no url, no title
\* and no content, and an entry that is null itself
SearchRawUniverse ==
    { [title |-> <<"A", " ", "-", " ", "C", "N", "N">>, content |-> <<"x">>,
       url |-> <<"h", "t", "t", "p", "s", ":", "/", "/", "e", ".", "c", "/", "1", "?", "u", "t", "m", "_", "s", "o", "u", "r", "c", "e", "=", "x">>,
       score |-> 1],
      [title |-> <<"a">>, content |-> <<"x">>,
       url |-> <<"h", "t", "t", "p", "s", ":", "/", "/", "w", "w", "w", ".", "e", ".", "c", "/", "2">>],
      [title |-> PyNone, content |-> <<"x">>,
       url |-> <<"h", "t", "t", "p", "s", ":", "/", "/", "e", ".", "c", "/", "3">>],
      [title |-> <<"a">>, content |-> <<"x">>, url |-> PyNone],
      [title |-> <<"B">>, content |-> PyNone],
      [url |-> <<"h", "t", "t", "p", "s", ":", "/", "/", "e", ".", "c", "/", "4">>],
      RawNull }

SearchRawLists == UNION { [1..n -> SearchRawUniverse] : n \in 0..MaxSearchResults }

\* what the GET /search of the call does
SearchOutcomes ==
    { [kind |-> "ok", results |-> r] : r \in SearchRawLists }
    \cup { [kind |-> k, results |-> <<>>] : k \in {"status", "timeout", "error", "malformed"} }

\* the texts the embedding model can be asked to encode
SearchComparisonTexts ==
    { ComparisonText(ParseResult(r)) : r \in { x \in SearchRawUniverse : x # RawNull } }

\* SentenceTransformer.encode: one vector per text
SearchEncoders == [SearchComparisonTexts -> { <<1, 0>>, <<0, 1>> }]

SearchInit ==
    /\ searchOutcome \in SearchOutcomes
    /\ searchEncoder \in SearchEncoders
    /\ searchModelLoaded \in BOOLEAN
    /\ searchLoadOk \in LoadOutcomes(searchOutcome, searchModelLoaded)
    /\ searchCount \in 0..MaxCount
    /\ searchOut = [raised |-> "none", results |-> <<>>, embedding_model |-> FALSE]
    /\ searchPc = "start"

\* results = await searxng.search(query, count)
SearchCall ==
    /\ searchPc = "start"
    /\ searchOut' = Search(searchOutcome, searchEncoder, searchModelLoaded, searchLoadOk, searchCount)
    /\ searchPc' = "done"
    /\ UNCHANGED <<searchOutcome, searchEncoder, searchModelLoaded, searchLoadOk, searchCount>>
    /\ UNCHANGED <<plannerVars, normalizeVars, filterVars, diversityVars, chatVars, freshnessVars, dedupVars, procVars, titleVars, healthVars, visionVars, modelsVars>>

SearchNext == SearchCall

InitSearch == SearchInit /\ PlannerIdle /\ NormalizeIdle /\ FilterIdle /\ DiversityIdle /\ ChatIdle /\ FreshnessIdle /\ DedupIdle /\ ProcessIdle /\ TitleIdle /\ HealthIdle /\ VisionIdle /\ ModelsIdle

SpecSearch == InitSearch /\ [][SearchNext]_vars

-----------------------------------------------------------------------------
(* The two cuts of the retrieval: diverse_results[:count] of a search()    *)
(* call and scored_results[:8] of the chat turn, each on its own inputs.   *)

InitCaps == InitSearch \/ InitFreshness

CapsNext == SearchCall \/ FreshnessCall

SpecCaps == InitCaps /\ [][CapsNext]_vars

-----------------------------------------------------------------------------
(* One server process serving several chat requests.  The requests run as  *)
(* coroutines of one event loop: they interleave at every await, so between *)
(* two search() calls of one request any step of another request can run.   *)
(* Lines 248-250 of _deduplicate_results hold no await and run as one step. *)

MaxRequests == 3         \* chat requests the process serves
MaxQueriesPerTurn == 2   \* search() calls of one request

Requests == 1..MaxRequests

ProcessInit ==
    /\ procService = [r \in Requests |-> "none"]
    /\ procQueries = [r \in Requests |-> 0]
    /\ procLoads = 0

\* searxng = SearXNGService(base_url=request.searxng_url): a new instance,
\* whose __init__ sets self._embedding_model = None
ProcNewService(r) ==
    /\ procService[r] = "none"
    /\ procService' = [procService EXCEPT ![r] = "unloaded"]
    /\ UNCHANGED <<procQueries, procLoads>>
    /\ UNCHANGED <<plannerVars, normalizeVars, filterVars, diversityVars, chatVars, freshnessVars, dedupVars, searchVars, titleVars, healthVars, visionVars, modelsVars>>

\* One search() call of request r, seen from the embedding model: filtered
\* is what reaches _deduplicate_results, and the model is constructed when
\* more than one result does and this instance holds none.  load_ok: whether
\* the construction succeeds (otherwise it raises and search returns []).
ProcSearch(r) ==
    /\ procService[r] # "none"
    /\ procQueries[r] < MaxQueriesPerTurn
    /\ \E filtered \in DedupInputs, load_ok \in BOOLEAN :
         IF NeedsEmbeddingModel(filtered) /\ procService[r] = "unloaded" /\ load_ok
         THEN /\ procService' = [procService EXCEPT ![r] = "loaded"]
              /\ procLoads' = procLoads + 1
         ELSE UNCHANGED <<procService, procLoads>>
    /\ procQueries' = [procQueries EXCEPT ![r] = @ + 1]
    /\ UNCHANGED <<plannerVars, normalizeVars, filterVars, diversityVars, chatVars, freshnessVars, dedupVars, searchVars, titleVars, healthVars, visionVars, modelsVars>>

ProcessNext == \E r \in Requests : ProcNewService(r) \/ ProcSearch(r)

InitProcess == ProcessInit /\ PlannerIdle /\ NormalizeIdle /\ FilterIdle /\ DiversityIdle /\ ChatIdle /\ FreshnessIdle /\ DedupIdle /\ SearchIdle /\ TitleIdle /\ HealthIdle /\ VisionIdle /\ ModelsIdle

SpecProcess == InitProcess /\ [][ProcessNext]_vars

-----------------------------------------------------------------------------
(* One _normalize_title(title) call on titles made of a headline and a     *)
(* suffix: a publisher, a date, both or none.                              *)

TitleBases ==
    { <<"M", "a", "r", "k", "e", "t", "s", " ", "T", "o", "d", "a", "y">>,
      <<"A", "p", "p", "l", "e", " ", "R", "e", "l", "e", "a", "s", "e", "s", " ", "N", "e", "w", " ", "i", "P", "h", "o", "n", "e">>,
      <<"T", "e", "c", "h", " ", "N", "e", "w", "s">>,
      <<"B", "r", "e", "a", "k", "i", "n", "g", ":", " ", "B", "i", "t", "c", "o", "i", "n", " ", "H", "i", "t", "s", " ", "$", "5", "0", "K">>,
      <<"N", "e", "w", "s">>,
      <<"a">> }

TitleSuffixes ==
    { <<>>,
      <<" ", "-", " ", "C", "N", "N">>,
      <<" ", "-", " ", "F", "o", "r", "b", "e", "s", " ", "2", "0", "2", "4">>,
      <<" ", "|", " ", "N", "o", "v", " ", "2", "5">>,
      <<" ", "|", " ", "2", "5", " ", "N", "o", "v">>,
      <<" ", "-", " ", "1", "1", "/", "2", "5", "/", "2", "0", "2", "5">>,
      <<" ", "|", " ", "B", "B", "C", " ", "N", "e", "w", "s">>,
      <<" ", "-", " ", "1", "/", "2", "/", "2", "4">>,
      <<" ", "|", " ", "5", " ", "d", "e", "c", " ", "2", "0", "2", "4">>,
      <<" ", " ", "-", " ", " ", "R", "e", "u", "t", "e", "r", "s">> }

TitleInputs == { base \o suffix : base \in TitleBases, suffix \in TitleSuffixes }

TitleInit ==
    /\ titleIn \in TitleInputs
    /\ titleOut = <<>>
    /\ titlePc = "start"

\* title_norm = self._normalize_title(result['name'])
TitleCall ==
    /\ titlePc = "start"
    /\ titleOut' = NormalizeTitle(titleIn)
    /\ titlePc' = "done"
    /\ UNCHANGED titleIn
    /\ UNCHANGED <<plannerVars, normalizeVars, filterVars, diversityVars, chatVars, freshnessVars, dedupVars, searchVars, procVars, healthVars, visionVars, modelsVars>>

TitleNext == TitleCall

InitTitle == TitleInit /\ PlannerIdle /\ NormalizeIdle /\ FilterIdle /\ DiversityIdle /\ ChatIdle /\ FreshnessIdle /\ DedupIdle /\ SearchIdle /\ ProcessIdle /\ HealthIdle /\ VisionIdle /\ ModelsIdle

SpecTitle == InitTitle /\ [][TitleNext]_vars

-----------------------------------------------------------------------------
(* One health_check() call: what the liveness probe does and what the      *)
(* fallback search would do.                                               *)

HealthInit ==
    /\ healthzOutcome \in ProbeOutcomes
    /\ searchProbeOutcome \in ProbeOutcomes
    /\ healthOut = [raised |-> "none", value |-> FALSE, requests |-> <<>>]
    /\ healthPc = "start"

\* await searxng.health_check()
HealthCall ==
    /\ healthPc = "start"
    /\ healthOut' = HealthCheck(healthzOutcome, searchProbeOutcome)
    /\ healthPc' = "done"
    /\ UNCHANGED <<healthzOutcome, searchProbeOutcome>>
    /\ UNCHANGED <<plannerVars, normalizeVars, filterVars, diversityVars, chatVars, freshnessVars, dedupVars, searchVars, procVars, titleVars, visionVars, modelsVars>>

HealthNext == HealthCall

InitHealth == HealthInit /\ PlannerIdle /\ NormalizeIdle /\ FilterIdle /\ DiversityIdle /\ ChatIdle /\ FreshnessIdle /\ DedupIdle /\ SearchIdle /\ ProcessIdle /\ TitleIdle /\ VisionIdle /\ ModelsIdle

SpecHealth == InitHealth /\ [][HealthNext]_vars

-----------------------------------------------------------------------------
(* load_florence_model called from executor threads (vision_service.py).   *)

MaxUploads == 3        \* uploads whose vision extraction runs at the same time

Uploads == 1..MaxUploads

NoPair == [model |-> 0, processor |-> 0]

\* the module is imported: _model = None, _processor = None; each upload's
\* run_in_executor thread is about to call load_florence_model
VisionInit ==
    /\ vision_model = 0
    /\ vision_processor = 0
    /\ visionLoads = 0
    /\ visionPc = [t \in Uploads |-> "start"]
    /\ visionRet = [t \in Uploads |-> NoPair]

\* `if _model is None:` read by thread t
VisionCheck(t) ==
    /\ visionPc[t] = "start"
    /\ visionPc' = [visionPc EXCEPT ![t] = IF vision_model = 0 THEN "load_model" ELSE "return"]
    /\ UNCHANGED <<vision_model, vision_processor, visionLoads, visionRet>>
    /\ UNCHANGED <<plannerVars, normalizeVars, filterVars, diversityVars, chatVars, freshnessVars, dedupVars, searchVars, procVars, titleVars, healthVars, modelsVars>>

\* _model = AutoModelForCausalLM.from_pretrained(...).to(get_device())
VisionLoadModel(t) ==
    /\ visionPc[t] = "load_model"
    /\ vision_model' = t
    /\ visionLoads' = visionLoads + 1
    /\ visionPc' = [visionPc EXCEPT ![t] = "load_processor"]
    /\ UNCHANGED <<vision_processor, visionRet>>
    /\ UNCHANGED <<plannerVars, normalizeVars, filterVars, diversityVars, chatVars, freshnessVars, dedupVars, searchVars, procVars, titleVars, healthVars, modelsVars>>

\* _processor = AutoProcessor.from_pretrained(model_id, trust_remote_code=True)
VisionLoadProcessor(t) ==
    /\ visionPc[t] = "load_processor"
    /\ vision_processor' = t
    /\ visionPc' = [visionPc EXCEPT ![t] = "return"]
    /\ UNCHANGED <<vision_model, visionLoads, visionRet>>
    /\ UNCHANGED <<plannerVars, normalizeVars, filterVars, diversityVars, chatVars, freshnessVars, dedupVars, searchVars, procVars, titleVars, healthVars, modelsVars>>

\* return _model, _processor
VisionReturn(t) ==
    /\ visionPc[t] = "return"
    /\ visionRet' = [visionRet EXCEPT ![t] = [model |-> vision_model, processor |-> vision_processor]]
    /\ visionPc' = [visionPc EXCEPT ![t] = "done"]
    /\ UNCHANGED <<vision_model, vision_processor, visionLoads>>
    /\ UNCHANGED <<plannerVars, normalizeVars, filterVars, diversityVars, chatVars, freshnessVars, dedupVars, searchVars, procVars, titleVars, healthVars, modelsVars>>

VisionNext ==
    \E t \in Uploads :
        VisionCheck(t) \/ VisionLoadModel(t) \/ VisionLoadProcessor(t) \/ VisionReturn(t)

InitVision == VisionInit /\ PlannerIdle /\ NormalizeIdle /\ FilterIdle /\ DiversityIdle /\ ChatIdle /\ FreshnessIdle /\ DedupIdle /\ SearchIdle /\ ProcessIdle /\ TitleIdle /\ HealthIdle /\ ModelsIdle

SpecVision == InitVision /\ [][VisionNext]_vars

-----------------------------------------------------------------------------
(* list_installed_models and its module-level cache (models.py).           *)

MaxListRequests == 3   \* GET /models/installed requests in flight together
MaxTicks == 4          \* clock steps observed

CacheTtl == 60         \* "ttl": 60  (seconds)
TickSeconds == 30      \* one clock step
StartTime == 1000      \* time.time() when the first request arrives

ListRequests == 1..MaxListRequests

NoListing == [kind |-> "none", data |-> 0]

\* _models_cache = {"data": None, "timestamp": 0, "ttl": 60}
ModelsInit ==
    /\ models_cache = [data |-> 0, timestamp |-> 0, ttl |-> CacheTtl]
    /\ now = StartTime
    /\ listPc = [r \in ListRequests |-> "start"]
    /\ listTime = [r \in ListRequests |-> 0]
    /\ listOut = [r \in ListRequests |-> NoListing]

\* time passes
ModelsTick ==
    /\ now < StartTime + MaxTicks * TickSeconds
    /\ now' = now + TickSeconds
    /\ UNCHANGED <<models_cache, listPc, listTime, listOut>>
    /\ UNCHANGED <<plannerVars, normalizeVars, filterVars, diversityVars, chatVars, freshnessVars, dedupVars, searchVars, procVars, titleVars, healthVars, visionVars>>

\* if _models_cache["data"] and (current_time - _models_cache["timestamp"] < _models_cache["ttl"])
CacheFresh(cache, current_time) ==
    cache.data # 0 /\ current_time - cache.timestamp < cache.ttl

\* current_time = time.time(); the cache check; on a hit the cached data is
\* returned, otherwise the request reaches `await client.list()`
ListStart(r) ==
    /\ listPc[r] = "start"
    /\ listTime' = [listTime EXCEPT ![r] = now]
    /\ IF CacheFresh(models_cache, now)
       THEN /\ listOut' = [listOut EXCEPT ![r] = [kind |-> "cached", data |-> models_cache.data]]
            /\ listPc' = [listPc EXCEPT ![r] = "done"]
       ELSE /\ listPc' = [listPc EXCEPT ![r] = "fetching"]
            /\ UNCHANGED listOut
    /\ UNCHANGED <<models_cache, now>>
    /\ UNCHANGED <<plannerVars, normalizeVars, filterVars, diversityVars, chatVars, freshnessVars, dedupVars, searchVars, procVars, titleVars, healthVars, visionVars>>

\* `response = await client.list()` completes: the cache gets the response
\* and the current_time taken before the await, and the response is
\* returned; or the call raises and HTTPException(500) is raised
ListFinish(r) ==
    /\ listPc[r] = "fetching"
    /\ \E fetched \in BOOLEAN :
         IF fetched
         THEN /\ models_cache' = [models_cache EXCEPT !.data = r, !.timestamp = listTime[r]]
              /\ listOut' = [listOut EXCEPT ![r] = [kind |-> "fetched", data |-> r]]
              /\ listPc' = [listPc EXCEPT ![r] = "done"]
         ELSE /\ UNCHANGED models_cache
              /\ listOut' = [listOut EXCEPT ![r] = [kind |-> "http_500", data |-> 0]]
              /\ listPc' = [listPc EXCEPT ![r] = "raised"]
    /\ UNCHANGED <<now, listTime>>
    /\ UNCHANGED <<plannerVars, normalizeVars, filterVars, diversityVars, chatVars, freshnessVars, dedupVars, searchVars, procVars, titleVars, healthVars, visionVars>>

ModelsNext ==
    \/ ModelsTick
    \/ \E r \in ListRequests : ListStart(r) \/ ListFinish(r)

InitModels == ModelsInit /\ PlannerIdle /\ NormalizeIdle /\ FilterIdle /\ DiversityIdle /\ ChatIdle /\ FreshnessIdle /\ DedupIdle /\ SearchIdle /\ ProcessIdle /\ TitleIdle /\ HealthIdle /\ VisionIdle

SpecModels == InitModels /\ [][ModelsNext]_vars

----------------------------------------------------------------------------
(* Claims about the Query Planner, checked under SpecPlanner.              *)

PlannerDone == plannerPc \in {"returned", "raised"}

\* the claims' own reading of "contains an absolute http(s) URL"
ContainsHttpUrl(content) ==
    \E prefix \in { <<"h", "t", "t", "p", ":", "/", "/">>,
                    <<"h", "t", "t", "p", "s", ":", "/", "/">> } :
        \E i \in 1..Len(content) :
            /\ StartsWithAt(content, i, prefix)
            /\ i + Len(prefix) <= Len(content)
            /\ ~IsSpace(content[i + Len(prefix)])

\* the turns that are among the last five of the conversation
InLastFive(i) == i \in 1..Len(messages) /\ i > Len(messages) - 5

UrlInLastFive == \E i \in 1..Len(messages) : InLastFive(i) /\ ContainsHttpUrl(messages[i].content)

UrlOnlyInOlderTurns ==
    /\ ~UrlInLastFive
    /\ \E i \in 1..Len(messages) : ~InLastFive(i) /\ ContainsHttpUrl(messages[i].content)

UserTurns == { i \in 1..Len(messages) : messages[i].role = "user" }

\* the most recent user turn of the whole conversation
LatestUserTurn == CHOOSE i \in UserTurns : \A j \in UserTurns : j <= i

\* C1: the planner never raises to its caller; for every conversation and
\* every LLM outcome the call returns a decision of type url or search.
C1_PlannerNeverRaises ==
    /\ plannerPc # "raised"
    /\ plannerPc = "returned" => decision.type \in {"url", "search"}

\* C2: on the URL-present path every search decision returned carries at
\* least 1 and at most 3 queries, each a string.
C2_SearchDecisionHasOneToThreeQueries ==
    (plannerPc = "returned" /\ llmCalls = <<"decision">> /\ decision.type = "search")
        => /\ Len(decision.queries) >= 1
           /\ Len(decision.queries) <= 3
           /\ \A i \in 1..Len(decision.queries) : decision.queries[i].k = "str"

\* C3: on the URL-present path a url decision is returned only with a url
\* field that is present and non-empty.
C3_UrlDecisionHasNonEmptyUrl ==
    (plannerPc = "returned" /\ llmCalls = <<"decision">> /\ decision.type = "url")
        => /\ decision.url.k = "str"
           /\ Len(decision.url.s) > 0

\* C4: whenever the LLM call raises or times out, on either path, the
\* planner returns a search decision with exactly one query, equal to the
\* content of the most recent user turn of the conversation (also when that
\* turn is not among the last 5).
C4_LlmFailureFallsBackToLatestUserTurn ==
    (PlannerDone /\ response.kind = "raise" /\ UserTurns # {})
        => /\ plannerPc = "returned"
           /\ decision.type = "search"
           /\ decision.queries = <<JStr(messages[LatestUserTurn].content)>>

\* C5: if none of the last 5 turns contains an absolute http(s) URL, the
\* planner never issues the url-vs-search decision call: it issues at most
\* the one query-generation call and it returns a search decision; a URL
\* only in older turns does not trigger the decision call.
C5_NoUrlInWindowTakesFastPath ==
    ~UrlInLastFive
        => /\ \A i \in 1..Len(llmCalls) : llmCalls[i] = "query_generation"
           /\ Len(llmCalls) <= 1
           /\ plannerPc # "raised"
           /\ plannerPc = "returned" => decision.type = "search"

\* C5's case: a conversation whose only URLs are older than the last five
\* turns has been planned, and a search decision came back after one
\* query-generation call.
C5_Witness ==
    /\ UrlOnlyInOlderTurns
    /\ plannerPc = "returned"
    /\ llmCalls = <<"query_generation">>
    /\ decision.type = "search"

----------------------------------------------------------------------------
(* Claims about the URL Filter / Normalizer, checked under SpecFilter and  *)
(* SpecNormalize.                                                          *)

\* the AMP, RSS/XML/feed and tracking patterns, compared case-insensitively
MatchesRejectedPattern(u) ==
    LET l == Lower(u) IN IsAmpUrl(l) \/ IsFeedUrl(l) \/ IsTrackingUrl(l)

\* C6: for every input result set, no URL in the output of the URL filter
\* (as rewritten by normalize) matches an AMP pattern, an RSS/XML/feed
\* pattern or a tracking pattern.
C6_NoSurvivingUrlMatchesPattern ==
    filterPc = "done"
        => \A i \in 1..Len(filterOut) : ~MatchesRejectedPattern(filterOut[i].url)

\* the query string of a url as written: between the first '?' and the '#'
UrlQueryText(u) ==
    LET hashAt == Find(u, "#")
        noFrag == IF hashAt = 0 THEN u ELSE Take(u, hashAt)
        qAt == Find(noFrag, "?")
    IN  IF qAt = 0 THEN <<>> ELSE Drop(noFrag, qAt + 1)

\* the key=value pairs of a url's query string as written, a pair with an
\* empty value included
KeyValuePairs(u) ==
    LET fields == SplitOn(UrlQueryText(u), "&")
    IN  { <<Take(fields[i], Find(fields[i], "=")), Drop(fields[i], Find(fields[i], "=") + 1)>> :
            i \in { j \in 1..Len(fields) : InSeq("=", fields[j]) } }

TrackingKeys == { tracking_params[i] : i \in 1..Len(tracking_params) }

\* C7: normalize(url) removes exactly the tracking query parameters: every
\* tracking key is absent from the result and every other key=value pair of
\* the input query (repeated keys and empty values included) is retained.
C7_NormalizeRemovesExactlyTrackingParams ==
    normPc = "done"
        => /\ \A kv \in KeyValuePairs(normOut) : kv[1] \notin TrackingKeys
           /\ \A kv \in KeyValuePairs(normUrl) :
                  kv[1] \notin TrackingKeys => kv \in KeyValuePairs(normOut)

----------------------------------------------------------------------------
(* Claims about the Diversity Enforcer, checked under SpecDiversity.       *)

\* the host of a url with a leading "www." label stripped; a url that
\* urlparse rejects has no host
HasHost(u) == ~UrlParse(u).raised

HostOf(u) ==
    LET netloc == UrlParse(u).netloc
    IN  IF StartsWith(netloc, <<"w", "w", "w", ".">>) THEN Drop(netloc, 5) ELSE netloc

\* how many results of a list are from host h
HostCount(results, h) ==
    Cardinality({ i \in 1..Len(results) : HasHost(results[i].url) /\ HostOf(results[i].url) = h })

HostsOf(results) ==
    { HostOf(results[i].url) : i \in { j \in 1..Len(results) : HasHost(results[j].url) } }

\* C8: for every input list and every maxPerDomain = k, no host (with a
\* leading "www." label stripped) appears more than k times among the
\* results the Diversity Enforcer returns.
C8_NoHostAboveCap ==
    divPc = "done" => \A h \in HostsOf(divOut) : HostCount(divOut, h) <= divMax

\* C8's case: the input holds more than k results of one host, some with
\* and some without the "www." label, and the enforcer returned k of them.
C8_Witness ==
    /\ divPc = "done"
    /\ divMax > 0
    /\ \E h \in HostsOf(divIn) :
          /\ HostCount(divIn, h) > divMax
          /\ HostCount(divOut, h) = divMax
          /\ \E i, j \in 1..Len(divIn) :
                /\ HasHost(divIn[i].url) /\ HasHost(divIn[j].url)
                /\ HostOf(divIn[i].url) = h /\ HostOf(divIn[j].url) = h
                /\ UrlParse(divIn[i].url).netloc # UrlParse(divIn[j].url).netloc

\* the chat turn has built its prompt after searching with several queries
SeveralQueriesDone ==
    /\ chatPc = "done"
    /\ chatDecision.type = "search"
    /\ Len(chatDecision.queries) >= 2

\* C9: after a turn that ran several planner queries, no host contributes
\* more than maxPerDomain (2) results to the evidence set handed to the
\* generator.
C9_EvidenceSetRespectsDomainCap ==
    SeveralQueriesDone =>
        \A h \in HostsOf(web_results) : HostCount(web_results, h) <= DefaultMaxPerDomain

\* two results the Deduplicator would call duplicates of each other
NearDuplicates(r1, r2) ==
    SimilarityAbove(encoder[ComparisonText(r1)], encoder[ComparisonText(r2)])

\* C10: after a turn that ran several planner queries, no two results with
\* different urls whose similarity is above the threshold are both in the
\* final curated set.  (search() leaves no such pair within the results of
\* one query, so a pair here comes from different queries.)
C10_NoNearDuplicatesInEvidenceSet ==
    SeveralQueriesDone =>
        \A i, j \in 1..Len(web_results) :
            (i < j /\ web_results[i].url # web_results[j].url)
                => ~NearDuplicates(web_results[i], web_results[j])

\* a result one of whose text fields, lower-cased, holds "2026" or "2027"
MentionsFutureYear(r) ==
    \E field \in {r.summary, r.name, r.url} :
        /\ field # PyNone
        /\ \E year \in { <<"2", "0", "2", "6">>, <<"2", "0", "2", "7">> } : Contains(Lower(field), year)

\* C11: no result whose lower-cased summary, name or url holds "2026" or
\* "2027" is in the output of score_by_freshness, nor in the web_results
\* cut from it, whatever its score, keywords, the current date and year.
C11_FutureDatedResultsExcluded ==
    freshPc = "done" =>
        /\ \A i \in 1..Len(freshOut) : ~MentionsFutureYear(freshOut[i].result)
        /\ \A i \in 1..Len(freshTop) : ~MentionsFutureYear(freshTop[i])

\* C11's case: the scorer was given a future-dated result with a relevance
\* score next to other results, in the year 2026, and returned some.
C11_Witness ==
    /\ freshPc = "done"
    /\ freshClock.year = 2026
    /\ \E i \in 1..Len(freshIn) : MentionsFutureYear(freshIn[i]) /\ freshIn[i].score > 0
    /\ Len(freshOut) > 0
    /\ Len(freshOut) < Len(freshIn)
-----------------------------------------------------------------------------
(* Claims about _deduplicate_results, checked under SpecDedup.             *)

\* C12: deduplicating the output of a deduplication, with the same model and
\* the same threshold, returns that output unchanged: the same results in
\* the same order.
C12_DedupIdempotent ==
    dedupPc = "twice" => dedupAgain = dedupOut

\* the first call removed a result and kept two that the model places close
\* to a common third vector; the second call has run
C12_Witness ==
    /\ dedupPc = "twice"
    /\ dedupThreshold = DefaultThreshold
    /\ Len(dedupIn) = 3
    /\ Len(dedupOut) = 2
    /\ dedupEncoder[ComparisonText(dedupOut[1])] = <<3, 2>>
    /\ dedupEncoder[ComparisonText(dedupOut[2])] = <<3, -2>>
    /\ dedupEncoder[ComparisonText(dedupIn[3])] = <<1, 0>>
-----------------------------------------------------------------------------
(* Claims about search(), checked under SpecSearch.                        *)

\* the request failed, or a stage after it raised
SearchFailed ==
    \/ searchOutcome.kind # "ok"
    \/ SearchBody(searchOutcome, searchEncoder, searchModelLoaded, searchLoadOk, searchCount).raised # "none"

\* C13: search() never raises; when the answer is not a 200, the request
\* times out, the transport fails, the body is malformed or a stage of the
\* pipeline raises, it returns the empty list.
C13_SearchNeverRaises ==
    searchPc = "done" =>
        /\ searchOut.raised = "none"
        /\ SearchFailed => searchOut.results = <<>>

\* a 200 answer with two results whose second stage after the request
\* raised: the call is over
C13_Witness ==
    /\ searchPc = "done"
    /\ searchOutcome.kind = "ok"
    /\ Len(searchOutcome.results) = 2
    /\ SearchBody(searchOutcome, searchEncoder, searchModelLoaded, searchLoadOk, searchCount).raised = "AttributeError"
    /\ searchCount > 0
-----------------------------------------------------------------------------
(* Claims about the sizes of the lists returned, checked under SpecCaps.   *)

\* C14: search(query, count) returns at most count results, for every
\* count >= 0, and the list handed to the generator holds at most 8
\* results, however many results were scored.
C14_OutputWithinRequestedCount ==
    /\ searchPc = "done" => Len(searchOut.results) <= searchCount
    /\ freshPc = "done" => Len(freshTop) <= TopResults

\* more than 8 results were scored and exactly 8 were handed on
C14_Witness ==
    /\ freshPc = "done"
    /\ Len(freshOut) > TopResults
    /\ Len(freshTop) = TopResults

\* a search() whose pipeline kept two results and returned one, as asked
C14_SearchCutApplied ==
    /\ searchPc = "done"
    /\ searchCount = 1
    /\ Len(searchOut.results) = 1
    /\ Len(Search(searchOutcome, searchEncoder, searchModelLoaded, searchLoadOk, 2).results) = 2
-----------------------------------------------------------------------------
(* Claims about the embedding model of a process, checked under            *)
(* SpecProcess.                                                            *)

\* C15: in one process the embedding model is constructed at most once,
\* whatever the number of requests and of service instances.
C15_ModelLoadedAtMostOncePerProcess ==
    procLoads <= 1
-----------------------------------------------------------------------------
(* Claims about search() without an embedding model, checked under         *)
(* SpecSearch.                                                             *)

\* the answer is a 200 whose entries are objects with a url that is not null
WellFormedAnswer ==
    /\ searchOutcome.kind = "ok"
    /\ \A i \in 1..Len(searchOutcome.results) :
         /\ searchOutcome.results[i] # RawNull
         /\ Get(searchOutcome.results[i], "url", <<>>) # PyNone

\* C16: when the embedding model cannot be loaded the deduplicator still
\* works (on Jaccard similarity), so a search whose url filter lets two or
\* more results through returns a list that is not empty.
C16_DedupFallsBackWithoutModel ==
    ( /\ searchPc = "done"
      /\ WellFormedAnswer
      /\ ~searchModelLoaded /\ ~searchLoadOk
      /\ searchCount >= 1
      /\ Len(FilterUrls(ParseResults(searchOutcome.results))) >= 2 )
    => searchOut.results # <<>>
-----------------------------------------------------------------------------
(* Claims about a chat turn whose backend is down, checked under SpecChat. *)

-----------------------------------------------------------------------------
(* Claims about the fields of the results search() returns, checked under  *)
(* SpecSearch.                                                             *)

\* C18: the name and the summary of every result that left _parse_results
\* and was returned by search() are strings, never None, whatever the raw
\* record held.
C18_NameAndSummaryAreStrings ==
    searchPc = "done" =>
        \A i \in 1..Len(searchOut.results) :
            /\ searchOut.results[i].name # PyNone
            /\ searchOut.results[i].summary # PyNone
-----------------------------------------------------------------------------
(* Claims about the urls of the evidence set, checked under SpecChat.      *)

\* C19: no result whose url is empty or None is ever among the merged
\* results or in the list handed to the generator.
C19_NoEmptyUrlInEvidenceSet ==
    /\ \A i \in 1..Len(all_results) : Truthy(all_results[i].url)
    /\ \A i \in 1..Len(web_results) : Truthy(web_results[i].url)

\* the latest search() returned a result whose url is "" next to one with a
\* url, and the turn handed results to the generator
C19_Witness ==
    /\ chatPc = "done"
    /\ \E i \in 1..Len(query_results) : query_results[i].url = <<>>
    /\ \E i \in 1..Len(query_results) : query_results[i].url # <<>>
    /\ Len(web_results) > 0
-----------------------------------------------------------------------------
(* Claims about _normalize_title, checked under SpecTitle.                 *)

T_apple_nov25 == <<"A", "p", "p", "l", "e", " ", "R", "e", "l", "e", "a", "s", "e", "s", " ", "N", "e", "w", " ", "i", "P", "h", "o", "n", "e", " ", "|", " ", "N", "o", "v", " ", "2", "5">>
T_apple == <<"a", "p", "p", "l", "e", " ", "r", "e", "l", "e", "a", "s", "e", "s", " ", "n", "e", "w", " ", "i", "p", "h", "o", "n", "e">>
T_forbes == <<"T", "e", "c", "h", " ", "N", "e", "w", "s", " ", "-", " ", "F", "o", "r", "b", "e", "s", " ", "2", "0", "2", "4">>
T_tech_news == <<"t", "e", "c", "h", " ", "n", "e", "w", "s">>

\* C20: a publisher suffix and a trailing date fragment are stripped, the
\* latter in the "| Nov 25" style too: "Apple Releases New iPhone | Nov 25"
\* normalizes to "apple releases new iphone", and "Tech News - Forbes 2024"
\* to "tech news".
C20_TitleNormalizationExamples ==
    titlePc = "done" =>
        /\ titleIn = T_apple_nov25 => titleOut = T_apple
        /\ titleIn = T_forbes => titleOut = T_tech_news
-----------------------------------------------------------------------------
(* Claims about health_check, checked under SpecHealth.                    *)

\* C21: health_check never raises and returns a boolean.  When the
\* liveness probe completes its verdict (status 200 or not) is returned and
\* no other request is made; only when the probe raises is the fallback
\* search issued, and the result is true iff that search answers 200.
C21_HealthCheckTotalAndFallsBackOnlyWhenUnreachable ==
    healthPc = "done" =>
        /\ healthOut.raised = "none"
        /\ healthOut.value \in BOOLEAN
        /\ healthzOutcome.kind = "status" =>
               /\ healthOut.value = (healthzOutcome.status = 200)
               /\ healthOut.requests = <<"/healthz">>
        /\ healthzOutcome.kind = "raise" =>
               /\ healthOut.requests = <<"/healthz", "/search">>
               /\ healthOut.value = ( /\ searchProbeOutcome.kind = "status"
                                      /\ searchProbeOutcome.status = 200 )

\* the liveness probe answered 503 while the search endpoint would have
\* answered 200: the call returned false after one request
C21_Witness ==
    /\ healthPc = "done"
    /\ healthzOutcome.kind = "status" /\ healthzOutcome.status = 503
    /\ searchProbeOutcome.kind = "status" /\ searchProbeOutcome.status = 200
    /\ healthOut.value = FALSE
    /\ Len(healthOut.requests) = 1
-----------------------------------------------------------------------------
(* Claims about which results _deduplicate_results keeps, checked under    *)
(* SpecDedup.                                                              *)

\* cos(v1, v2) > num/den as the claim reads it, with 0.0 for the cosine of
\* a vector of norm zero: den * dot > num * |v1| * |v2|, decided on squares
CosineAbove(v1, v2, threshold) ==
    LET dot_product == v1[1] * v2[1] + v1[2] * v2[2]
        norms_sq == (v1[1] * v1[1] + v1[2] * v1[2]) * (v2[1] * v2[1] + v2[2] * v2[2])
        left == threshold.den * dot_product
        right_sq == threshold.num * threshold.num * norms_sq
    IN  IF norms_sq = 0 THEN threshold.num < 0
        ELSE IF left >= 0 /\ threshold.num < 0 THEN TRUE
        ELSE IF left < 0 /\ threshold.num >= 0 THEN FALSE
        ELSE IF left >= 0 THEN left * left > right_sq
        ELSE left * left < right_sq

\* the embedding of the i-th input result
DedupVec(i) == dedupEncoder[ComparisonText(dedupIn[i])]

\* the positions of the input accepted by the greedy rule among the first
\* n: a position is accepted iff its similarity to every position accepted
\* before it is at most the threshold
RECURSIVE GreedyAccepted(_)
GreedyAccepted(n) ==
    IF n = 0 THEN {}
    ELSE LET before == GreedyAccepted(n - 1)
         IN  IF \A j \in before : ~CosineAbove(DedupVec(n), DedupVec(j), dedupThreshold)
             THEN before \cup {n}
             ELSE before

\* the results of seq at the positions of idx, in the order of seq
RECURSIVE SubsequenceAt(_, _, _)
SubsequenceAt(seq, idx, i) ==
    IF i > Len(seq) THEN <<>>
    ELSE (IF i \in idx THEN <<seq[i]>> ELSE <<>>) \o SubsequenceAt(seq, idx, i + 1)

\* C22: the output of _deduplicate_results is the order-preserving greedy
\* selection: the input results at the accepted positions, in input order;
\* the first result is kept, and no two results kept at different
\* positions have a similarity above the threshold.
C22_DedupIsGreedySelection ==
    dedupPc \in {"once", "twice"} =>
        /\ dedupOut = SubsequenceAt(dedupIn, GreedyAccepted(Len(dedupIn)), 1)
        /\ Len(dedupIn) > 0 => Len(dedupOut) > 0 /\ dedupOut[1] = dedupIn[1]
        /\ \A i, j \in 1..Len(dedupOut) :
               i # j => ~CosineAbove(dedupEncoder[ComparisonText(dedupOut[i])],
                                           dedupEncoder[ComparisonText(dedupOut[j])],
                                           dedupThreshold)

\* three results at threshold 1.0; the third has the embedding of the
\* first, a similarity of exactly 1.0, and all three are kept
C22_Witness ==
    /\ dedupPc = "once"
    /\ dedupThreshold = [num |-> 1, den |-> 1]
    /\ Len(dedupIn) = 3
    /\ dedupIn[1] # dedupIn[3]
    /\ DedupVec(1) = DedupVec(3)
    /\ DedupVec(1) # <<0, 0>>
    /\ dedupOut = <<dedupIn[1], dedupIn[2], dedupIn[3]>>
-----------------------------------------------------------------------------
(* Claims about which results _ensure_diversity keeps, checked under       *)
(* SpecDiversity.                                                          *)

\* the host of a url as the claim reads it: the netloc without a leading
\* "www." label
ClaimHost(url) ==
    LET netloc == UrlParse(url).netloc
    IN  IF StartsWith(netloc, <<"w", "w", "w", ".">>) THEN Drop(netloc, 5) ELSE netloc

\* the positions kept among the first n by the claim's rule: a url that
\* fails to parse is kept, another one is kept iff fewer than divMax of the
\* positions kept before it, with a url that parses, have its host
RECURSIVE KeptByHost(_)
KeptByHost(n) ==
    IF n = 0 THEN {}
    ELSE LET before == KeptByHost(n - 1)
             same_host == { j \in before : /\ ~UrlParse(divIn[j].url).raised
                                           /\ ClaimHost(divIn[j].url) = ClaimHost(divIn[n].url) }
         IN  IF UrlParse(divIn[n].url).raised \/ Cardinality(same_host) < divMax
             THEN before \cup {n}
             ELSE before

\* C23: _ensure_diversity keeps exactly the results that have fewer than
\* max_per_domain earlier kept results of the same host, hosts compared
\* after stripping a leading "www."; results of other hosts never count,
\* and a result whose url does not parse is kept.
C23_DiversityKeepsByHost ==
    divPc = "done" => divOut = SubsequenceAt(divIn, KeptByHost(Len(divIn)), 1)
-----------------------------------------------------------------------------
(* Claims about the freshness bonuses, checked under SpecFreshness.        *)

\* the text of the result contains the current year
MentionsCurrentYear(r) == Contains(ResultText(r), IntToStr(freshClock.year))

\* C24: whatever the current year, a result whose text contains it is in
\* the scored output with the +10 bonus in its score, and the output is in
\* descending order of score.
C24_CurrentYearBonusAttainable ==
    freshPc = "done" =>
        /\ \A i \in 1..Len(freshIn) :
               MentionsCurrentYear(freshIn[i]) =>
                   \E k \in 1..Len(freshOut) :
                       /\ freshOut[k].result = freshIn[i]
                       /\ freshOut[k].score >= 10
        /\ \A k \in 1..(Len(freshOut) - 1) : freshOut[k].score >= freshOut[k + 1].score

\* C25: on the fast path a returned decision carries 1 or 2 queries, each
\* of which is a string (a bracketed value that is not a non-empty list of
\* strings must give the fallback, whose one query is a string).
C25_FastPathQueriesAreOneOrTwoStrings ==
    (plannerPc = "returned" /\ llmCalls = <<"query_generation">>)
        => /\ decision.type = "search"
           /\ Len(decision.queries) \in 1..FastPathMaxQueries
           /\ \A i \in 1..Len(decision.queries) : decision.queries[i].k = "str"

\* the two query strings of the well-formed values the replies carry
TwoQueries == <<JStr(QueryText(1)), JStr(QueryText(2))>>

\* further bracket characters after the first value of a reply
TrailingBrackets ==
    { <<Tok("prose"), Tok("{"), Tok("}")>>, <<Tok("prose"), Tok("["), Tok("]")>> }

\* C26: when the reply starts with a well-formed, valid value of the kind
\* the path looks for and further brace or bracket characters follow it,
\* the planner uses that first value: the two queries of the array on the
\* fast path, the search or url decision of the object on the decision path.
C26_FirstBracketedValueIsUsed ==
    (plannerPc = "returned" /\ response.kind = "text")
        => \A trail \in TrailingBrackets :
            /\ (llmCalls = <<"query_generation">>
                    /\ response.text = ArrToks(StrItems(2)) \o trail)
                 => decision = SearchDecision(TwoQueries)
            /\ (llmCalls = <<"decision">>
                    /\ response.text = Obj2(TypeIs(K_search), Member(K_queries, ArrToks(StrItems(2)))) \o trail)
                 => decision = SearchDecision(TwoQueries)
            /\ (llmCalls = <<"decision">>
                    /\ response.text = Obj2(TypeIs(K_url), Member(K_url, <<TStr(U_target)>>)) \o trail)
                 => decision = UrlDecision(JStr(U_target))
-----------------------------------------------------------------------------
(* Claims about the web-search stage of a chat turn, checked under SpecChat. *)

\* C27: when a step of the web-search stage of a turn failed (an error or
\* unavailability notice is recorded), the set handed to the generator is
\* empty and the prompt carries no web results.
C27_FailedStageHandsOverNothing ==
    (chatPc \in {"generate", "done", "error"} /\ searxng_error_message # PyNone)
        => /\ web_results = <<>>
           /\ promptSection # "web_results"
-----------------------------------------------------------------------------
(* Claims about load_florence_model, checked under SpecVision.             *)

\* C28: under concurrent first access the vision model is loaded once, and
\* no call returns a model together with a processor that is still unset.
C28_VisionModelLoadedOnceAndPaired ==
    /\ visionLoads <= 1
    /\ \A t \in DOMAIN visionRet :
          visionPc[t] = "done" => ~(visionRet[t].model # 0 /\ visionRet[t].processor = 0)

\* the web-search stage of the turn is over
StageOver == chatPc \in {"prompt", "generate", "done", "error"}

\* C29: in one chat turn a url decision leads to exactly one read of the url
\* and to no health check and no search; a search decision leads to no read
\* of a url; when the prompt is built, url content and web results are
\* never both non-empty.
C29_UrlPathAndSearchPathExclusive ==
    /\ chatDecision.type = "url"
         => /\ \A i \in 1..Len(turnRequests) : turnRequests[i] = "read_url"
            /\ Len(turnRequests) <= 1
            /\ StageOver => turnRequests = <<"read_url">>
    /\ chatDecision.type = "search"
         => \A i \in 1..Len(turnRequests) : turnRequests[i] # "read_url"
    /\ chatDecision.type \notin {"url", "search"} => turnRequests = <<>>
    /\ StageOver => ~(Truthy(url_content) /\ Len(web_results) > 0)
    /\ promptSection = "url_content" => chatDecision.type = "url"
    /\ promptSection = "web_results" => chatDecision.type = "search"

\* C29's cases: a turn whose url decision was followed by the one read and
\* whose prompt carries the page text
C29_Witness ==
    /\ chatPc = "done"
    /\ chatDecision.type = "url"
    /\ turnRequests = <<"read_url">>
    /\ promptSection = "url_content"
-----------------------------------------------------------------------------
(* Claims about the installed-models cache, checked under SpecModels.      *)

\* C30: a request is served from the cache only while the recorded
\* timestamp is less than ttl (60 s) old; a failed fetch leaves data and
\* timestamp as they were; and in no step does the recorded timestamp
\* decrease.
C30_CacheTimestampNeverDecreases ==
    [][ /\ models_cache'.timestamp >= models_cache.timestamp
        /\ \A r \in ListRequests :
              /\ (listPc[r] = "start" /\ listOut'[r].kind = "cached")
                    => (models_cache.data # 0 /\ now - models_cache.timestamp < CacheTtl)
              /\ (listPc[r] = "fetching" /\ listPc'[r] = "raised")
                    => models_cache' = models_cache ]_vars

====
